---- MODULE Spec2Model ----
(***************************************************************************)
(* Gavdash backend (Adversus webhook + event store + REST proxy).          *)
(*                                                                         *)
(* A model of src/index.js and of the earlier variants of the same server  *)
(* kept under src/unnamed.  Every Express handler is one action per        *)
(* run-to-completion segment: a handler that awaits (the event-store       *)
(* INSERT, an upstream fetch, the pacing timer) is split at the await, and *)
(* the settling of the awaited promise is the action that runs the next    *)
(* segment.  Node runs one segment at a time, so segments are atomic.      *)
(***************************************************************************)
EXTENDS Integers, Sequences, FiniteSets, TLC

\* ------------------------------------------------------------------------
\* Bounds of the model
\* ------------------------------------------------------------------------

\* Webhook requests accepted in one behaviour (more than MAX_EVENTS, so that
\* the buffer overflows and evicts).
MaxWebhooks == 202

\* A pending INSERT settles before this many further webhooks are accepted:
\* it bounds the number of webhook handlers suspended together.
MaxOverlap == 2

\* The last VariedEvents webhooks of a behaviour carry any payload of
\* Payloads; the earlier ones take the payloads in turn (the content of the
\* buffer stays enumerable).
VariedEvents == 2

\* Upstream fetches of /adversus/campaigns in flight together.
MaxUpstream == 1

\* Webhook requests accepted in a behaviour of SpecAuth, which runs every
\* protected route with every credential and every payload.
MaxAuthWebhooks == 2

\* ------------------------------------------------------------------------
\* Values
\* ------------------------------------------------------------------------

NULL == "<null>"
ABSENT == "<undefined>"

\* The values a request can carry in the header x-adversus-secret, in the
\* query ?secret= and in the query ?key= ("" is a header/parameter that is
\* missing or empty: readSecrets maps both to "").
GoodSecret == "testsecret123"
Secrets == {"", GoodSecret, "wrong"}

\* What a request carries: <<header, ?secret, ?key>>.  Every source alone
\* with each value, and a wrong header beside a good query value (the
\* else-if chain of readSecrets falls through to the next source).
Credentials ==
  {<<h, "", "">> : h \in Secrets} \cup {<<"", q, "">> : q \in Secrets}
    \cup {<<"", "", k>> : k \in Secrets}
    \cup {<<"wrong", GoodSecret, "">>, <<"wrong", "", GoodSecret>>}

\* The credentials of the long runs that fill the buffer: none, each source
\* with the good value, a wrong header alone and beside a good key.
FewCredentials ==
  {<<"", "", "">>, <<GoodSecret, "", "">>, <<"", GoodSecret, "">>,
   <<"", "", GoodSecret>>, <<"wrong", "", "">>, <<"wrong", "", GoodSecret>>}

\* process.env.ADVERSUS_WEBHOOK_SECRET: set, or unset ("").
EnvSecrets == {"", GoodSecret}

\* JavaScript truthiness of a string-valued member.
Truthy(x) == x # ABSENT /\ x # NULL /\ x # ""

\* Webhook bodies (req.body || {}): JSON objects with the members the
\* handler reads; a member that is missing is ABSENT, so the last one is {}.
Payloads ==
  << [event |-> "lead_saved", type |-> ABSENT, id |-> "42"],
     [event |-> ABSENT, type |-> "call_ended", id |-> "7"],
     [event |-> "", type |-> "lead_deleted", id |-> ABSENT],
     [event |-> ABSENT, type |-> ABSENT, id |-> ABSENT] >>

VARIABLES
  envSecret,    \* WEBHOOK_SECRET
  pgPool,       \* TRUE when DATABASE_URL is set and the pool exists
  lastEvents,   \* the in-memory debug buffer, newest first
  seq,          \* number of webhook events accepted: the clock of receivedAt
  pending,      \* receivedAt of the webhook handlers suspended at the INSERT
  dbAttempts,   \* number of INSERT statements handed to the pool
  upstream,     \* upstream fetches in flight (campaigns route)
  res,          \* the response sent last
  lastPosted,   \* the body of the webhook request accepted last
  replies,      \* per accepted webhook, in order: the responses sent to it
  sc,           \* the locals of the scan handler that is running
  net,          \* the upstream side: fetches in flight, fetches issued, timer
  scanRes,      \* the response of the scan handler
  en,           \* the locals of the enriched-leads handler, and its fetches
  enRes,        \* the response of the enriched-leads handler
  calls,        \* the calls of adversusGet, each with its timer
  ld,           \* the locals of the leads-list handler
  ldRes,        \* the response of the leads-list handler
  np,           \* the locals of the inspect_nonpii handler
  npRes,        \* the response of the inspect_nonpii handler
  rq,           \* two scan requests at once: the locals of each handler
  rqRes,        \* two scan requests at once: the response of each
  fo,           \* a call of fromDataObject: its argument and what it returned
  hy            \* one request sent to servers that differ in the configured secret only

webVars == <<envSecret, pgPool, lastEvents, seq, pending, dbAttempts,
             upstream, res, lastPosted, replies>>

\* ------------------------------------------------------------------------
\* src/index.js 23-47: readSecrets / requireSecret
\* ------------------------------------------------------------------------

ReadSecretsNoEnvCheck(headerSecret, querySecret, queryKey) ==
  IF headerSecret = envSecret THEN "header:secret"
  ELSE IF querySecret = envSecret THEN "query:secret"
  ELSE IF queryKey = envSecret THEN "query:key"
  ELSE NULL

\* usedSource of readSecrets (NULL when no source matches)
ReadSecrets(headerSecret, querySecret, queryKey) ==
  IF headerSecret # "" /\ envSecret # "" /\ headerSecret = envSecret
    THEN "header:secret"
  ELSE IF querySecret # "" /\ envSecret # "" /\ querySecret = envSecret
    THEN "query:secret"
  ELSE IF queryKey # "" /\ envSecret # "" /\ queryKey = envSecret
    THEN "query:key"
  ELSE NULL

\* requireSecret calls next() exactly when readSecrets(req).ok
RequireSecret(h, q, k) == ReadSecrets(h, q, k) # NULL

NoResponse ==
  [route |-> "none", status |-> 0, ok |-> FALSE, stamp |-> 0,
   body |-> <<>>, logged |-> NULL]

\* res.status(401).json({ok:false, error: "Unauthorized: ..."})
Unauthorized(route) ==
  [route |-> route, status |-> 401, ok |-> FALSE, stamp |-> 0,
   body |-> <<>>, logged |-> NULL]

\* ------------------------------------------------------------------------
\* src/index.js 54-55, 108-123: the debug buffer and the webhook
\* ------------------------------------------------------------------------

MAX_EVENTS == 200

\* lastEvents.slice(0, 100) of the debug routes
DEBUG_SLICE == 100

Min(a, b) == IF a < b THEN a ELSE b

\* payload?.event || payload?.type || null
EventTypeOf(payload) ==
  IF Truthy(payload.event) THEN payload.event
  ELSE IF Truthy(payload.type) THEN payload.type
  ELSE NULL

EventOf(stamp, payload) ==
  [receivedAt |-> stamp, eventType |-> EventTypeOf(payload), payload |-> payload]

UnshiftNoPop(buf, ev) == <<ev>> \o buf

PushShift(buf, ev) ==
  LET grown == buf \o <<ev>>
  IN  IF Len(grown) > MAX_EVENTS THEN SubSeq(grown, 2, Len(grown)) ELSE grown

\* lastEvents.unshift(ev); if (lastEvents.length > MAX_EVENTS) lastEvents.pop();
UnshiftPop(buf, ev) ==
  LET grown == <<ev>> \o buf
  IN  IF Len(grown) > MAX_EVENTS THEN SubSeq(grown, 1, Len(grown) - 1) ELSE grown

\* the bodies the (n+1)-th accepted webhook request may carry
PayloadChoices(n) ==
  IF n >= MaxWebhooks - VariedEvents
  THEN {Payloads[i] : i \in DOMAIN Payloads}
  ELSE {Payloads[(n % Len(Payloads)) + 1]}

\* return res.status(200).json({ ok: true })
WebhookAck(stamp, logged) ==
  [route |-> "webhook", status |-> 200, ok |-> TRUE, stamp |-> stamp,
   body |-> <<>>, logged |-> logged]

\* the 200 sent right after the buffer is updated, before the INSERT settles
WebhookAdversusAckFirst(h, q, k, payload) ==
  IF ~RequireSecret(h, q, k)
  THEN /\ res' = Unauthorized("webhook")
       /\ UNCHANGED <<envSecret, pgPool, lastEvents, seq, pending, dbAttempts,
                      upstream, lastPosted, replies>>
  ELSE /\ seq' = seq + 1
       /\ lastEvents' = UnshiftPop(lastEvents, EventOf(seq + 1, payload))
       /\ lastPosted' = payload
       /\ replies' = Append(replies, 1)
       /\ res' = WebhookAck(seq + 1, NULL)
       /\ IF pgPool
          THEN /\ pending' = pending \cup {seq + 1}
               /\ dbAttempts' = dbAttempts + 1
          ELSE UNCHANGED <<pending, dbAttempts>>
       /\ UNCHANGED <<envSecret, pgPool, upstream>>

\* app.post("/webhook/adversus", requireSecret, async ...) up to the await
\* (or to the response when there is no pool)
WebhookAdversus(h, q, k, payload) ==
  IF ~RequireSecret(h, q, k)
  THEN /\ res' = Unauthorized("webhook")
       /\ UNCHANGED <<envSecret, pgPool, lastEvents, seq, pending, dbAttempts,
                      upstream, lastPosted, replies>>
  ELSE /\ seq' = seq + 1
       /\ lastEvents' = UnshiftPop(lastEvents, EventOf(seq + 1, payload))
       /\ lastPosted' = payload
       /\ replies' = Append(replies, IF pgPool THEN 0 ELSE 1)
       /\ IF pgPool
          THEN /\ pending' = pending \cup {seq + 1}
               /\ dbAttempts' = dbAttempts + 1
               /\ UNCHANGED res
          ELSE /\ res' = WebhookAck(seq + 1, NULL)
               /\ UNCHANGED <<pending, dbAttempts>>
       /\ UNCHANGED <<envSecret, pgPool, upstream>>

InsertOutcomes == {"resolved", "rejected"}

InsertSettlesNoCatch(s, outcome) ==
  /\ s \in pending
  /\ pending' = pending \ {s}
  /\ res' = IF outcome = "rejected" THEN res ELSE WebhookAck(s, NULL)
  /\ replies' = IF outcome = "rejected" THEN replies ELSE [replies EXCEPT ![s] = @ + 1]
  /\ UNCHANGED <<envSecret, pgPool, lastEvents, seq, dbAttempts, upstream, lastPosted>>

\* the INSERT settles: try { await pgPool.query(...) } catch (e) { console.error }
\* and then return res.status(200).json({ ok: true })
InsertSettles(s, outcome) ==
  /\ s \in pending
  /\ pending' = pending \ {s}
  /\ res' = WebhookAck(s, IF outcome = "rejected" THEN "DB insert failed" ELSE NULL)
  /\ replies' = [replies EXCEPT ![s] = @ + 1]
  /\ UNCHANGED <<envSecret, pgPool, lastEvents, seq, dbAttempts, upstream, lastPosted>>

\* the whole buffer, not the first 100 entries of it
DebugSliceAll(buf) == buf

\* lastEvents.slice(0, 100)
DebugSlice(buf) == SubSeq(buf, 1, Min(DEBUG_SLICE, Len(buf)))

\* app.get("/_debug/events", requireSecret, ...) and app.get("/debug/events", ...)
DebugEvents(h, q, k) ==
  /\ res' = IF ~RequireSecret(h, q, k)
            THEN Unauthorized("debug")
            ELSE [route |-> "debug", status |-> 200, ok |-> TRUE, stamp |-> seq,
                  body |-> DebugSlice(lastEvents), logged |-> NULL]
  /\ UNCHANGED <<envSecret, pgPool, lastEvents, seq, pending, dbAttempts,
                 upstream, lastPosted, replies>>

\* ------------------------------------------------------------------------
\* src/index.js 140-151: GET /adversus/campaigns (a protected proxy route)
\* ------------------------------------------------------------------------

\* requireSecret, then the handler up to await adversusGet("/v1/campaigns")
CampaignsRequest(h, q, k) ==
  IF ~RequireSecret(h, q, k)
  THEN /\ res' = Unauthorized("campaigns")
       /\ UNCHANGED <<envSecret, pgPool, lastEvents, seq, pending, dbAttempts,
                      upstream, lastPosted, replies>>
  ELSE /\ upstream' = upstream + 1
       /\ UNCHANGED <<envSecret, pgPool, lastEvents, seq, pending, dbAttempts,
                      res, lastPosted, replies>>

\* what adversusGet yields: a 2xx answer, a non-2xx answer, or a rejection
\* (network error, abort on timeout)
FetchOutcomes == {"ok", "notok", "throw"}

\* res.json(...) on a 2xx answer, res.status(r.status || 500) on another
\* (503 stands for it), res.status(500) in the catch
CampaignsStatus(outcome) ==
  IF outcome = "ok" THEN 200
  ELSE IF outcome = "notok" THEN 503
  ELSE 500

\* the fetch settles and the handler answers
CampaignsSettles(outcome) ==
  /\ upstream > 0
  /\ upstream' = upstream - 1
  /\ res' = [route |-> "campaigns", status |-> CampaignsStatus(outcome),
             ok |-> (outcome = "ok"), stamp |-> 0, body |-> <<>>, logged |-> NULL]
  /\ UNCHANGED <<envSecret, pgPool, lastEvents, seq, pending, dbAttempts, lastPosted, replies>>

WebInit ==
  /\ envSecret \in EnvSecrets
  /\ pgPool \in BOOLEAN
  /\ lastEvents = <<>>
  /\ seq = 0
  /\ pending = {}
  /\ dbAttempts = 0
  /\ upstream = 0
  /\ res = NoResponse
  /\ lastPosted = Payloads[4]
  /\ replies = <<>>


\* ------------------------------------------------------------------------
\* JSON values of the upstream answers
\* ------------------------------------------------------------------------

\* a numeric member that is missing
NoId == -1

Nullish(x) == x = ABSENT \/ x = NULL

\* a ?? b ?? ... over the candidates in order; ABSENT when all are nullish
RECURSIVE Coalesce(_)
Coalesce(xs) ==
  IF xs = <<>> THEN ABSENT
  ELSE IF ~Nullish(xs[1]) THEN xs[1]
  ELSE Coalesce(Tail(xs))

\* a.id ?? b over numeric members
CoalesceId(a, b) == IF a # NoId THEN a ELSE b

\* String.prototype.trim on the strings of the model: the blank ones become ""
Trim(s) == IF s \in {"", " ", "  "} THEN "" ELSE s

\* arr.join(", ")
RECURSIVE Join(_)
Join(xs) ==
  IF xs = <<>> THEN ""
  ELSE IF Len(xs) = 1 THEN xs[1]
  ELSE xs[1] \o ", " \o Join(Tail(xs))

\* the member names of the model that match /^\d+$/, and Number(k) of each
DigitKeys == {"96830", "555", "07"}
IsDigits(k) == k \in DigitKeys
NumberOf(k) ==
  CASE k = "96830" -> 96830
    [] k = "555" -> 555
    [] k = "07" -> 7
    [] OTHER -> 0

\* String.prototype.toLowerCase on the status words of the model
Lower(s) ==
  CASE s = "Success" -> "success"
    [] s = "SALE" -> "sale"
    [] s = "Lost" -> "lost"
    [] OTHER -> s

\* One member of a container: an element of an array, or the value v under
\* the name k of an object.  kind is "object", "scalar" (value holds the
\* string) or "null"; the other members are those the code reads from an
\* object, ABSENT when missing.
Item ==
  [k |-> "", kind |-> "object", label |-> ABSENT, name |-> ABSENT,
   title |-> ABSENT, key |-> ABSENT, id |-> NoId, fieldId |-> NoId,
   value |-> ABSENT, val |-> ABSENT, data |-> ABSENT, text |-> ABSENT,
   content |-> ABSENT, hasValues |-> FALSE, values |-> <<>>]

Scalar(k, s) == [Item EXCEPT !.k = k, !.kind = "scalar", !.value = s]
Labelled(k, l, v) == [Item EXCEPT !.k = k, !.label = l, !.value = v]

\* a container: shape is "none" (missing), "array" or "object"
NoContainer == [shape |-> "none", items |-> <<>>]
ArrayOf(items) == [shape |-> "array", items |-> items]
ObjectOf(items) == [shape |-> "object", items |-> items]

\* Array.isArray(it.values) ? it.values.join(", ") : fallback
ValuesJoined(it, fallback) == IF it.hasValues THEN Join(it.values) ELSE fallback

\* the members of an element as the optional chaining it?.x reads them: a
\* scalar or null element has none
AsObject(it) == IF it.kind = "object" THEN it ELSE [Item EXCEPT !.k = it.k]

RECURSIVE FlatMap(_, _)
\* xs.flatMap(f) for f yielding sequences
FlatMap(f(_), xs) ==
  IF xs = <<>> THEN <<>> ELSE f(xs[1]) \o FlatMap(f, Tail(xs))

\* ------------------------------------------------------------------------
\* src/index.js 811-858: resultdata_ids_preview, the helpers
\* ------------------------------------------------------------------------

successWords ==
  {"success", "successful", "won", "sale", "solgt", "succes", "ok", "completed"}

\* the status members of a result object (and of its data member)
NoStatus ==
  [status |-> ABSENT, result |-> ABSENT, outcome |-> ABSENT, type |-> ABSENT,
   disposition |-> ABSENT, dispositionName |-> ABSENT]

\* a result object: its status members, those of r.data, r.success ("true",
\* "false", or ABSENT when it is no boolean), its created time (0: missing)
\* and the containers the scans read
ResultObject ==
  [st |-> NoStatus, dataSt |-> NoStatus, success |-> ABSENT, created |-> 0,
   resultData |-> NoContainer, dataResultData |-> NoContainer,
   fields |-> NoContainer, resultFields |-> NoContainer,
   dataFields |-> NoContainer]

\* the candidate words of isSuccessResult: .filter(Boolean).map(toLowerCase)
SuccessCandidates(r) ==
  LET raw == <<r.st.status, r.st.result, r.st.outcome, r.st.type,
               r.st.disposition, r.st.dispositionName,
               r.dataSt.status, r.dataSt.result, r.dataSt.outcome, r.dataSt.type,
               r.dataSt.disposition, r.dataSt.dispositionName,
               IF r.success = "true" THEN "success"
               ELSE IF r.success = "false" THEN "" ELSE NULL>>
  IN  {Lower(raw[i]) : i \in {j \in DOMAIN raw : Truthy(raw[j])}}

isSuccessResultNoFilter(r, requireSuccess) == TRUE

isSuccessResult(r, requireSuccess) ==
  IF ~requireSuccess THEN TRUE
  ELSE IF SuccessCandidates(r) = {} THEN FALSE
  ELSE \E w \in SuccessCandidates(r) : w \in successWords

\* coerceExample(val): NULL for null
coerceExample(v) ==
  IF v.kind = "null" THEN NULL
  ELSE IF v.kind = "scalar" THEN v.value
  ELSE LET x == Coalesce(<<v.value, v.val, v.text, ValuesJoined(v, ABSENT)>>)
       IN  IF ~Nullish(x) THEN x ELSE "{json}"

\* extractLabel(val, fallbackKey)
extractLabel(v, fallbackKey) ==
  LET lbl == IF v.kind = "object" THEN Coalesce(<<v.label, v.name, v.title>>)
             ELSE ABSENT
  IN  IF Truthy(lbl) THEN lbl ELSE fallbackKey

\* the member names of a container as Object.entries yields them: the indexes
\* of an array, the names of an object
KeyOf(obj, i) == IF obj.shape = "array" THEN ToString(i - 1) ELSE obj.items[i].k
KeyIsDigits(obj, i) == obj.shape = "array" \/ IsDigits(obj.items[i].k)
KeyNumber(obj, i) == IF obj.shape = "array" THEN i - 1 ELSE NumberOf(obj.items[i].k)

\* one hit of collectNumericEntries, for member i of obj; origin is the
\* result object the container was read from (0: the lead itself), kept for
\* the properties
NumericEntry(obj, i, prefixLabel, origin) ==
  LET v == obj.items[i]
  IN  IF KeyIsDigits(obj, i) /\ ~Nullish(coerceExample(v))
           /\ Trim(coerceExample(v)) # ""
      THEN << [id |-> KeyNumber(obj, i), label |-> extractLabel(v, KeyOf(obj, i)),
               example |-> coerceExample(v), source |-> prefixLabel,
               origin |-> origin] >>
      ELSE <<>>

\* collectNumericEntries(obj, prefixLabel)
collectNumericEntries(obj, prefixLabel, origin) ==
  IF obj.shape = "none" THEN <<>>
  ELSE LET one(i) == NumericEntry(obj, i, prefixLabel, origin)
       IN  FlatMap(one, [i \in DOMAIN obj.items |-> i])


\* collectNumericEntries over the five places of one result object r, which
\* is ResultObjects[origin]; letter is "A", "B" or "C"
ResultEntries(r, letter, origin) ==
  collectNumericEntries(r.resultData, letter \o ".resultData", origin)
    \o collectNumericEntries(r.dataResultData, letter \o ".data.resultData", origin)
    \o collectNumericEntries(r.fields, letter \o ".fields", origin)
    \o collectNumericEntries(r.resultFields, letter \o ".resultFields", origin)
    \o collectNumericEntries(r.dataFields, letter \o ".data.fields", origin)

\* ------------------------------------------------------------------------
\* The upstream answers of the model
\* ------------------------------------------------------------------------

\* Longest array of result objects an upstream answer carries.
MaxResults == 2

\* The result objects the upstream answers are built from:
\*  1 a sale: status "Success", created 1, resultData {"96830": "Ja"}
\*  2 a lost call: status "Lost", created 2,
\*      resultData {"96830": "Nej", "note": "x"}
\*  3 success: true, created 3, fields {"note": "y"} (no numeric member)
\*  4 no status member, no created,
\*      data.fields {"555": {label: "Alder", value: "41"}}
\*  5 status "SALE", created 2,
\*      resultFields [{label: "Alder", id: 555, value: "41"}, {key: "k", value: " "}]
ResultObjects ==
  << [ResultObject EXCEPT !.st.status = "Success", !.created = 1,
        !.resultData = ObjectOf(<<Scalar("96830", "Ja")>>)],
     [ResultObject EXCEPT !.st.status = "Lost", !.created = 2,
        !.resultData = ObjectOf(<<Scalar("96830", "Nej"), Scalar("note", "x")>>)],
     [ResultObject EXCEPT !.success = "true", !.created = 3,
        !.fields = ObjectOf(<<Scalar("note", "y")>>)],
     [ResultObject EXCEPT
        !.dataFields = ObjectOf(<<Labelled("555", "Alder", "41")>>)],
     [ResultObject EXCEPT !.st.status = "SALE", !.created = 2,
        !.resultFields = ArrayOf(<<[Labelled("", "Alder", "41") EXCEPT !.id = 555],
                                   [Item EXCEPT !.key = "k", !.value = " "]>>)] >>

\* a member that may hold an array of result objects (by index in
\* ResultObjects), or be missing
NotAnArray == [isArray |-> FALSE, items |-> <<>>]
ArrayBody(a) == [isArray |-> TRUE, items |-> a]

\* the bodies of /leads/{id}/results and /results?leadId=: no array, and
\* arrays of at most MaxResults result objects
ListBodies ==
  {NotAnArray} \cup
  {ArrayBody(a) : a \in {x \in {<<>>, <<1>>, <<2>>, <<2, 1>>, <<4, 3>>, <<5, 2>>,
                                <<3, 2, 1>>} : Len(x) <= MaxResults}}

\* what adversusGet(...).catch(() => null) yields for /leads/{id}/results and
\* /results?leadId=: null ("throw"), a non-2xx answer, or a 2xx answer
ListAnswers ==
  {[kind |-> k, body |-> NotAnArray] : k \in {"throw", "notok"}}
    \cup {[kind |-> "ok", body |-> b] : b \in ListBodies}

\* the body of leads/{id}?expand=... : falsy (an empty text), a text, or an
\* object with the members the scans read; leads0X is body.leads[0].X
ExpandBody ==
  [falsy |-> FALSE, isObject |-> TRUE,
   results |-> NotAnArray, dataResults |-> NotAnArray,
   leads0Results |-> NotAnArray, items0Results |-> NotAnArray,
   resultData |-> NoContainer, dataResultData |-> NoContainer,
   leads0ResultData |-> NoContainer, leads0DataResultData |-> NoContainer,
   resultFields |-> NoContainer, dataResultFields |-> NoContainer,
   leads0ResultFields |-> NoContainer, leads0DataResultFields |-> NoContainer]

\*  1 {}          2 ""          3 "not json"
\*  4 {results: [sale]}
\*  5 {results: [lost], resultData: {"96830": "Nej"}}
\*  6 {data: {results: [no status]}, leads: [{results: [sale, lost]}]}
\*  7 {resultFields: [{label: "Alder", value: "41"}], results: []}
\*  8 {data: {resultFields: {"555": {label: "Alder", value: "41"}, "07": "x"}},
\*     leads: [{resultData: {"96830": "Ja"}}]}
\*  9 {resultFields: {"96830": "Ja", "07": {}}, results: [SALE, lost]}
ExpandBodies ==
  { ExpandBody,
    [ExpandBody EXCEPT !.falsy = TRUE, !.isObject = FALSE],
    [ExpandBody EXCEPT !.isObject = FALSE],
    [ExpandBody EXCEPT !.results = ArrayBody(<<1>>)],
    [ExpandBody EXCEPT !.results = ArrayBody(<<2>>),
       !.resultData = ObjectOf(<<Scalar("96830", "Nej")>>)],
    [ExpandBody EXCEPT !.dataResults = ArrayBody(<<4>>),
       !.leads0Results = ArrayBody(<<1, 2>>)],
    [ExpandBody EXCEPT !.results = ArrayBody(<<>>),
       !.resultFields = ArrayOf(<<Labelled("", "Alder", "41")>>)],
    [ExpandBody EXCEPT
       !.dataResultFields = ObjectOf(<<Labelled("555", "Alder", "41"),
                                       Scalar("07", "x")>>),
       !.leads0ResultData = ObjectOf(<<Scalar("96830", "Ja")>>)],
    [ExpandBody EXCEPT !.results = ArrayBody(<<5, 2>>),
       !.resultFields = ObjectOf(<<Scalar("96830", "Ja"),
                                   [Item EXCEPT !.k = "07"]>>)] }

ExpandAnswers ==
  {[kind |-> k, body |-> ExpandBody] : k \in {"throw", "notok"}}
    \cup {[kind |-> "ok", body |-> b] : b \in ExpandBodies}

\* a lead of the list: its id members (NoId: missing)
Lead(id, leadId) == [id |-> id, leadId |-> leadId, leadID |-> NoId]

\* Longest lead list the list fetch resolves to.
MaxLeads == 2

\* the lead lists of the model
LeadLists ==
  {l \in { <<>>,
           <<Lead(1, NoId)>>,
           <<Lead(1, NoId), Lead(NoId, 2)>>,
           <<Lead(NoId, NoId), Lead(2, NoId)>>,
           <<Lead(0, 1), Lead(1, NoId)>>,
           <<Lead(1, NoId), Lead(NoId, NoId), Lead(3, NoId)>> } :
     Len(l) <= MaxLeads}

\* the body of GET /v1/leads: kind is "array" (items holds the records),
\* "object" (members holds its members in order, each an array or not) or
\* "other" (null, a text, a number); total, count and totalCount are the
\* numeric members of that name (0: missing, no number, or 0)
NoBody ==
  [kind |-> "other", items |-> <<>>, members |-> <<>>,
   total |-> 0, count |-> 0, totalCount |-> 0]
ArrayPayload(l) == [NoBody EXCEPT !.kind = "array", !.items = l]
ObjectPayload(members) == [NoBody EXCEPT !.kind = "object", !.members = members]
Member(k, l) == [k |-> k, isArray |-> TRUE, items |-> l]
NoArrayMember(k) == [k |-> k, isArray |-> FALSE, items |-> <<>>]

\* the bodies the scans are run on
LeadPayloads ==
  {ArrayPayload(l) : l \in LeadLists}
    \cup { ObjectPayload(<<Member("items", <<Lead(1, NoId)>>)>>),
           ObjectPayload(<<NoArrayMember("meta"), Member("hits", <<Lead(1, NoId)>>)>>),
           NoBody }

\* the status of an upstream answer that is not ok
UpstreamStatuses == {404}

LeadAnswers ==
  {[kind |-> "throw", status |-> 0, payload |-> NoBody]}
    \cup {[kind |-> "notok", status |-> st, payload |-> NoBody] :
            st \in UpstreamStatuses}
    \cup {[kind |-> "ok", status |-> 200, payload |-> p] : p \in LeadPayloads}

\* for (const k of ["items","data","rows","results","list","leads"])
KnownKeys == <<"items", "data", "rows", "results", "list", "leads">>

\* the array under the first of the known names from i on that holds an
\* array; <<>> when none does
RECURSIVE KnownArray(_, _)
KnownArray(p, i) ==
  IF i > Len(KnownKeys) THEN <<>>
  ELSE IF \E j \in DOMAIN p.members :
            p.members[j].k = KnownKeys[i] /\ p.members[j].isArray
  THEN (p.members[CHOOSE j \in DOMAIN p.members :
                    p.members[j].k = KnownKeys[i] /\ p.members[j].isArray]).items
  ELSE KnownArray(p, i + 1)

\* Object.keys(payload).find(k => Array.isArray(payload[k])): the array
\* under it, <<>> when there is none
FirstArray(p) ==
  IF \E j \in DOMAIN p.members : p.members[j].isArray
  THEN (p.members[CHOOSE j \in DOMAIN p.members :
                    /\ p.members[j].isArray
                    /\ \A m \in 1..(j - 1) : ~p.members[m].isArray]).items
  ELSE <<>>

\* the resolution without the search for the first array-valued member
NormaliseLeadsKnownOnly(p) ==
  IF p.kind = "array" THEN p.items
  ELSE IF p.kind = "object" THEN KnownArray(p, 1)
  ELSE <<>>

\* let leads = []; if (Array.isArray(payload)) ... else if (payload && ...) ...
NormaliseLeads(p) ==
  IF p.kind = "array" THEN p.items
  ELSE IF p.kind = "object"
  THEN IF KnownArray(p, 1) # <<>> THEN KnownArray(p, 1) ELSE FirstArray(p)
  ELSE <<>>

\* ------------------------------------------------------------------------
\* The scan handlers: shared state
\* ------------------------------------------------------------------------

scanVars == <<sc, net, scanRes>>

\* the locals of a scan handler
ScanIdle ==
  [endpoint |-> "none", pc |-> "idle", requireSuccess |-> TRUE,
   sample |-> 0, total |-> 0, toScan |-> <<>>, i |-> 0, leadId |-> NoId,
   hits |-> <<>>, tried |-> <<>>, perLead |-> <<>>, diag |-> <<>>,
   seen |-> <<>>, tryLog |-> <<>>, cand |-> <<>>]

\* the traffic of the handler, kept for the properties: the fetches in
\* flight, every fetch started so far, the pending setTimeout (0: none) and
\* the number of delays that have elapsed
NetIdle == [inflight |-> {}, log |-> <<>>, timer |-> 0, elapsed |-> 0]

NoScanResponse == [status |-> 0, ok |-> FALSE]

ScanInit ==
  /\ sc = ScanIdle
  /\ net = NetIdle
  /\ scanRes = NoScanResponse

\* adversusGet(url) is called: the fetch is in flight
Issue(n, lead, url) ==
  [n EXCEPT !.inflight = @ \cup {[lead |-> lead, url |-> url]},
            !.log = Append(@, [lead |-> lead, url |-> url])]

\* the awaited fetch has settled
Settle(n, lead, url) == [n EXCEPT !.inflight = @ \ {[lead |-> lead, url |-> url]}]

\* lead?.id ?? lead?.leadId ?? lead?.leadID
LeadIdOf(lead) == CoalesceId(lead.id, CoalesceId(lead.leadId, lead.leadID))

\* if (!leadId) continue
Skipped(lead) == LeadIdOf(lead) = NoId \/ LeadIdOf(lead) = 0

\* the index of the first lead from i on that is not skipped (Len + 1: none)
RECURSIVE NextLead(_, _)
NextLead(toScan, i) ==
  IF i > Len(toScan) THEN Len(toScan) + 1
  ELSE IF Skipped(toScan[i]) THEN NextLead(toScan, i + 1)
  ELSE i

\* Math.max(1, Math.min(hi, parseInt(String(req.query.sample || dflt), 10) || dflt));
\* sampleQ is the parsed number, 0 when the parameter is missing or no number
ClampSample(sampleQ, hi, dflt) ==
  LET n == IF sampleQ = 0 THEN dflt ELSE sampleQ
  IN  IF n > hi THEN hi ELSE IF n < 1 THEN 1 ELSE n

\* arr.slice(0, n)
Take(xs, n) == SubSeq(xs, 1, Min(n, Len(xs)))

\* stable insertion of x into the sorted xs, before the first element that x
\* must precede
RECURSIVE InsertSorted(_, _, _)
InsertSorted(Before(_, _), x, xs) ==
  IF xs = <<>> THEN <<x>>
  ELSE IF Before(x, xs[1]) THEN <<x>> \o xs
  ELSE <<xs[1]>> \o InsertSorted(Before, x, Tail(xs))

\* Array.prototype.sort with a comparator (stable)
RECURSIVE SortBy(_, _)
SortBy(Before(_, _), xs) ==
  IF xs = <<>> THEN <<>>
  ELSE InsertSorted(Before, xs[Len(xs)], SortBy(Before, SubSeq(xs, 1, Len(xs) - 1)))


\* ------------------------------------------------------------------------
\* src/index.js 783-976: GET /adversus/leads/resultdata_ids_preview
\* ------------------------------------------------------------------------

\* the hits of the result objects of one source that pass the filter, without
\* the filter
HitsOfListNoFilter(items, requireSuccess, letter) ==
  LET one(ix) == ResultEntries(ResultObjects[ix], letter, ix)
  IN  FlatMap(one, items)

\* for (const r of list) { if (!isSuccessResult(r)) continue; hits.push(...) }
HitsOfList(items, requireSuccess, letter) ==
  LET one(ix) == IF ~isSuccessResult(ResultObjects[ix], requireSuccess) THEN <<>>
                 ELSE ResultEntries(ResultObjects[ix], letter, ix)
  IN  FlatMap(one, items)

\* an entry of d.tried; items is the list that was counted, kept for the
\* properties
Tried(endpoint, list) ==
  [endpoint |-> endpoint, count |-> Len(list), error |-> FALSE, items |-> list]
TriedError(endpoint) ==
  [endpoint |-> endpoint, count |-> NoId, error |-> TRUE, items |-> <<>>]

\* if (hits.length === 0): the next source is tried
IdsNextSourceAlways(s) == TRUE
IdsNextSource(s) == s.hits = <<>>

\* sources A and B: the answer ans of the source named letter
IdsListSource(s, ans, letter, endpoint) ==
  IF ans.kind = "ok"
  THEN LET list == IF ans.body.isArray THEN ans.body.items ELSE <<>>
       IN  [s EXCEPT !.tried = Append(@, Tried(endpoint, list)),
                     !.hits = @ \o HitsOfList(list, s.requireSuccess, letter)]
  ELSE [s EXCEPT !.tried = Append(@, TriedError(endpoint))]

\* arrayify(x) of a member that is an array or missing
arrayify(x) == IF x.isArray THEN x.items ELSE <<>>

\* candidateArrays.flat().filter(Boolean)
FlatResults(b) ==
  arrayify(b.results) \o arrayify(b.dataResults)
    \o arrayify(b.leads0Results) \o arrayify(b.items0Results)

\* for (const c of leadLevelRD) hits.push(...collectNumericEntries(c, ...))
LeadLevelHits(b) ==
  collectNumericEntries(b.resultData, "C.lead.resultData", 0)
    \o collectNumericEntries(b.dataResultData, "C.lead.resultData", 0)
    \o collectNumericEntries(b.leads0ResultData, "C.lead.resultData", 0)
    \o collectNumericEntries(b.leads0DataResultData, "C.lead.resultData", 0)

\* source C: the answer ans of expand=results, or of include=results
IdsExpandSource(s, ans) ==
  IF ans.kind = "ok" /\ ~ans.body.falsy
  THEN [s EXCEPT
          !.tried = Append(@, Tried("leads/{id}?expand/include=results",
                                    FlatResults(ans.body))),
          !.hits = @ \o HitsOfList(FlatResults(ans.body), s.requireSuccess, "C")
                     \o LeadLevelHits(ans.body)]
  ELSE [s EXCEPT !.tried = Append(@, TriedError("leads/{id}?expand/include=results"))]

\* the index of the entry of seen for id (0: none)
SeenIndex(seen, id) ==
  IF \E j \in DOMAIN seen : seen[j].id = id
  THEN CHOOSE j \in DOMAIN seen : seen[j].id = id
  ELSE 0

\* Set.prototype.add on a set kept in insertion order
AddOnce(xs, x) == IF \E j \in DOMAIN xs : xs[j] = x THEN xs ELSE Append(xs, x)

\* the body of for (const h of hits) { ... } over the Map seen
SeenAdd(seen, h) ==
  LET s1 == IF SeenIndex(seen, h.id) = 0
            THEN Append(seen, [id |-> h.id, count |-> 0, labelSamples |-> <<>>,
                               example |-> h.example])
            ELSE seen
      j == SeenIndex(s1, h.id)
  IN  [s1 EXCEPT ![j].count = @ + 1,
                 ![j].labelSamples = IF Truthy(h.label) THEN AddOnce(@, h.label) ELSE @,
                 ![j].example = IF ~Truthy(@) THEN h.example ELSE @]

RECURSIVE SeenAddAll(_, _)
SeenAddAll(seen, hits) ==
  IF hits = <<>> THEN seen ELSE SeenAddAll(SeenAdd(seen, hits[1]), Tail(hits))

\* perLead.push(...); for (const h of hits) ...; diag.push(d)
IdsAggregate(s) ==
  [s EXCEPT !.perLead = Append(@, [leadId |-> s.leadId, ids |-> s.hits]),
            !.seen = SeenAddAll(@, s.hits),
            !.diag = Append(@, [leadId |-> s.leadId, tried |-> s.tried])]

\* .sort((x,y) => y.count - x.count || (x.id - y.id))
IdsBefore(x, y) == x.count > y.count \/ (x.count = y.count /\ x.id < y.id)

\* res.json({ ok:true, scanned, ids, sample: perLead.slice(0,3), diag, requireSuccess })
IdsResponse(s) ==
  [status |-> 200, ok |-> TRUE, scanned |-> Len(s.toScan),
   ids |-> SortBy(IdsBefore,
                [j \in DOMAIN s.seen |->
                   [id |-> s.seen[j].id, labels |-> Take(s.seen[j].labelSamples, 3),
                    count |-> s.seen[j].count, example |-> s.seen[j].example]]),
   sample |-> Take(s.perLead, 3), diag |-> s.diag,
   requireSuccess |-> s.requireSuccess]

\* the answer when the list fetch is not ok, or the handler throws
ScanFailure(status) == [status |-> status, ok |-> FALSE]


\* ------------------------------------------------------------------------
\* src/index.js 627-780: GET /adversus/leads/inspect_resultfields_deep
\* ------------------------------------------------------------------------

\* a tuple of fromDataArray / fromDataObject: label NULL and id 0 stand for
\* null
FieldTuple(label, id, value) ==
  [label |-> IF label = "" THEN NULL ELSE label,
   id |-> IF id = NoId THEN 0 ELSE id, value |-> value]

\* the value of an element: it?.value ?? it?.val ?? it?.data ?? it?.text ??
\* it?.content ?? (Array.isArray(it?.values) ? it.values.join(", ") : null)
ArrayItemValue(it) ==
  Coalesce(<<it.value, it.val, it.data, it.text, it.content, ValuesJoined(it, NULL)>>)

\* one element of fromDataArray; key is a string in the model, so
\* (typeof it?.key === "number" ? it.key : null) is null
ArrayItemTuple(e) ==
  LET it == AsObject(e)
      raw == Coalesce(<<it.label, it.name, it.title, it.key, "">>)
      label == Trim(raw)
      id == CoalesceId(it.id, it.fieldId)
      value == ArrayItemValue(it)
  IN  IF label = "" /\ (id = NoId \/ id = 0) THEN <<>>
      ELSE IF Nullish(value) \/ Trim(value) = "" THEN <<>>
      ELSE <<FieldTuple(label, id, value)>>

\* fromDataArray(arr)
fromDataArray(arr) ==
  IF arr.shape # "array" THEN <<>> ELSE FlatMap(ArrayItemTuple, arr.items)

\* the first loop of fromDataObject: the members that are objects
StructuredTuple(v) ==
  LET label == Trim(Coalesce(<<v.label, v.name, v.title, v.k>>))
      id == CoalesceId(v.id, CoalesceId(v.fieldId,
              IF IsDigits(v.k) THEN NumberOf(v.k) ELSE NoId))
      value == Coalesce(<<v.value, v.val, v.text, ValuesJoined(v, ABSENT)>>)
  IN  IF v.kind # "object" THEN <<>>
      ELSE IF (label # "" \/ (id # NoId /\ id # 0))
                /\ ~Nullish(value) /\ Trim(value) # ""
      THEN <<FieldTuple(label, id, value)>>
      ELSE <<>>

\* the second loop of fromDataObject: the numeric members, whatever they
\* hold; String(v) of an object is "[object Object]"
PlainTuple(v) ==
  IF ~IsDigits(v.k) \/ v.kind = "null" THEN <<>>
  ELSE IF v.kind = "object" THEN <<FieldTuple("", NumberOf(v.k), "[object Object]")>>
  ELSE IF Trim(v.value) = "" THEN <<>>
  ELSE <<FieldTuple("", NumberOf(v.k), v.value)>>

\* both loops of fromDataObject run whatever the first one found
fromDataObjectBothLoops(obj) ==
  IF obj.shape # "object" THEN <<>>
  ELSE FlatMap(StructuredTuple, obj.items) \o FlatMap(PlainTuple, obj.items)

\* fromDataObject(obj)
fromDataObject(obj) ==
  IF obj.shape # "object" THEN <<>>
  ELSE IF FlatMap(StructuredTuple, obj.items) # <<>>
  THEN FlatMap(StructuredTuple, obj.items)
  ELSE FlatMap(PlainTuple, obj.items)

\* ------------------------------------------------------------------------
\* src/index.js 670-698: fromDataObject called on one object
\* ------------------------------------------------------------------------
foVars == <<fo>>

\* what an object may hold under each of its names, ABSENT included; the
\* names are listed as Object.entries lists them: the integer names in
\* ascending order, then the others in the order of insertion
MemberChoices ==
  <<{<<>>, <<Scalar("555", "x")>>, <<Scalar("555", " ")>>,
     <<Labelled("555", "Alder", "41")>>,
     <<[Item EXCEPT !.k = "555", !.kind = "null"]>>},
    {<<>>, <<Scalar("96830", "Ja")>>,
     <<[Item EXCEPT !.k = "96830", !.value = "v"]>>,
     <<[Item EXCEPT !.k = "96830"]>>},
    {<<>>, <<Scalar("07", "y")>>, <<[Item EXCEPT !.k = "07"]>>},
    {<<>>, <<Scalar("note", "n")>>, <<Labelled("note", "Kommentar", "ok")>>,
     <<Labelled("note", "Kommentar", " ")>>}>>

DataObjects ==
  {ObjectOf(a \o b \o c \o d) :
     a \in MemberChoices[1], b \in MemberChoices[2],
     c \in MemberChoices[3], d \in MemberChoices[4]}

FoIdle == [pc |-> "idle", obj |-> NoContainer, out |-> <<>>]
FoInit == fo = FoIdle

\* fromDataObject(obj) is called and returns
FromDataObjectCall(obj) ==
  /\ fo.pc = "idle"
  /\ fo' = [pc |-> "done", obj |-> obj, out |-> fromDataObject(obj)]

\* the tuples of one place, as the forEach pair reads them
PlaceTuples(c) == fromDataArray(c) \o fromDataObject(c)

\* the key of hit(prefix, label, id, val); NULL when there is none
HitKey(prefix, t) ==
  IF Truthy(t.label) THEN prefix \o "." \o t.label
  ELSE IF t.id # 0 THEN prefix \o "." \o ToString(t.id)
  ELSE NULL

\* the index of the entry of the object seen under key (0: none)
FieldIndex(seen, key) ==
  IF \E j \in DOMAIN seen : seen[j].field = key
  THEN CHOOSE j \in DOMAIN seen : seen[j].field = key
  ELSE 0

\* the entry counted with its example replaced by every hit
CountLastWins(seen, key, val) ==
  LET s1 == IF FieldIndex(seen, key) = 0
            THEN Append(seen, [field |-> key, count |-> 0, example |-> val])
            ELSE seen
      j == FieldIndex(s1, key)
  IN  [s1 EXCEPT ![j].count = @ + 1, ![j].example = val]

\* seen[key] created when missing, counted, its example filled when empty
Count(seen, key, val) ==
  LET s1 == IF FieldIndex(seen, key) = 0
            THEN Append(seen, [field |-> key, count |-> 0, example |-> val])
            ELSE seen
      j == FieldIndex(s1, key)
  IN  [s1 EXCEPT ![j].count = @ + 1,
                 ![j].example = IF Nullish(@) \/ @ = "" THEN val ELSE @]

\* hit(prefix, label, id, val)
hit(seen, prefix, t) ==
  IF Nullish(t.value) \/ Trim(t.value) = "" THEN seen
  ELSE IF HitKey(prefix, t) = NULL THEN seen
  ELSE Count(seen, HitKey(prefix, t), t.value)

RECURSIVE HitAll(_, _, _)
HitAll(seen, prefix, ts) ==
  IF ts = <<>> THEN seen ELSE HitAll(hit(seen, prefix, ts[1]), prefix, Tail(ts))

\* the tuples source A yields
DeepTuplesA(b) ==
  PlaceTuples(b.resultFields) \o PlaceTuples(b.dataResultFields)
    \o PlaceTuples(b.leads0ResultFields) \o PlaceTuples(b.leads0DataResultFields)

\* the results chosen by source B: found is FALSE when results stays null
DeepResults(b) ==
  IF b.results.isArray
  THEN [found |-> TRUE,
        results |-> [j \in DOMAIN b.results.items |-> ResultObjects[b.results.items[j]]]]
  ELSE IF b.leads0Results.isArray
  THEN [found |-> TRUE,
        results |-> [j \in DOMAIN b.leads0Results.items |->
                       ResultObjects[b.leads0Results.items[j]]]]
  ELSE IF b.leads0ResultData.shape # "none" \/ b.leads0ResultFields.shape # "none"
  THEN [found |-> TRUE,
        results |-> << [ResultObject EXCEPT !.resultData = b.leads0ResultData,
                                            !.resultFields = b.leads0ResultFields] >>]
  ELSE [found |-> FALSE, results |-> <<>>]

\* results.sort(by created, newest first)[0]: the first of the newest
Latest(results) ==
  LET newest == CHOOSE j \in DOMAIN results :
                  /\ \A m \in DOMAIN results : results[m].created <= results[j].created
                  /\ \A m \in 1..(j - 1) : results[m].created < results[j].created
  IN  results[newest]

\* the hits of source B on the latest result
DeepHitsB(seen, latest) ==
  HitAll(HitAll(HitAll(HitAll(seen,
      "resultFields", PlaceTuples(latest.resultFields)),
      "resultFields", PlaceTuples(latest.fields)),
      "resultData", PlaceTuples(latest.resultData)),
      "resultData", PlaceTuples(latest.dataResultData))

TryLog(id, endpoint, got) == [id |-> id, endpoint |-> endpoint, got |-> got, count |-> NoId]

\* source A: the answer of expand=resultFields, or of include=resultFields
DeepSourceA(s, ans) ==
  IF ans.kind = "ok" /\ ~ans.body.falsy
  THEN [s EXCEPT
          !.seen = HitAll(@, "resultFields", DeepTuplesA(ans.body)),
          !.hits = DeepTuplesA(ans.body),
          !.tryLog = Append(@, TryLog(s.leadId, "leads/{id}?expand/include=resultFields", TRUE))]
  ELSE [s EXCEPT
          !.tryLog = Append(@, TryLog(s.leadId, "leads/{id}?expand/include=resultFields", FALSE))]

\* source B: the answer of expand=results
DeepSourceB(s, ans) ==
  IF ans.kind = "ok" /\ ~ans.body.falsy /\ ans.body.isObject
       /\ DeepResults(ans.body).found /\ DeepResults(ans.body).results # <<>>
  THEN [s EXCEPT
          !.seen = DeepHitsB(@, Latest(DeepResults(ans.body).results)),
          !.tryLog = Append(@, TryLog(s.leadId, "leads/{id}?expand=results", TRUE))]
  ELSE [s EXCEPT
          !.tryLog = Append(@, TryLog(s.leadId, "leads/{id}?expand=results", FALSE))]

\* a.field.localeCompare(b.field) < 0 on the keys of the model
FieldOrder ==
  << "resultData.555", "resultData.96830", "resultData.Alder",
     "resultFields.555", "resultFields.7", "resultFields.96830",
     "resultFields.Alder", "resultFields.k", "resultFields.note" >>
FieldRank(f) ==
  IF \E j \in DOMAIN FieldOrder : FieldOrder[j] = f
  THEN CHOOSE j \in DOMAIN FieldOrder : FieldOrder[j] = f
  ELSE 0

\* .sort((a,b) => b.count - a.count || a.field.localeCompare(b.field))
DeepBefore(x, y) ==
  x.count > y.count \/ (x.count = y.count /\ FieldRank(x.field) < FieldRank(y.field))

\* res.json({ ok: true, total_returned, scanned, fields, diag: tryLog })
DeepResponse(s) ==
  [status |-> 200, ok |-> TRUE, total_returned |-> s.total,
   scanned |-> Len(s.toScan), fields |-> SortBy(DeepBefore, s.seen),
   diag |-> s.tryLog]


\* ------------------------------------------------------------------------
\* src/unnamed/part_006 455-584: the earlier inspect_resultfields_deep
\* ------------------------------------------------------------------------

\* one element of the earlier fromDataArray: label and value only
OldArrayItemTuple(e) ==
  LET it == AsObject(e)
      label == Trim(Coalesce(<<it.label, it.name, it.title, it.key, "">>))
      value == ArrayItemValue(it)
  IN  IF label = "" THEN <<>>
      ELSE IF Nullish(value) \/ Trim(value) = "" THEN <<>>
      ELSE <<FieldTuple(label, NoId, value)>>

OldFromDataArray(arr) ==
  IF arr.shape # "array" THEN <<>> ELSE FlatMap(OldArrayItemTuple, arr.items)

\* one member of the earlier fromDataObject: the label is the member name
OldObjectTuple(v) ==
  LET label == Trim(v.k)
      value == IF v.kind = "null" THEN NULL
               ELSE IF v.kind = "scalar" THEN v.value
               ELSE Coalesce(<<v.value, v.val, v.text, ValuesJoined(v, ABSENT)>>)
  IN  IF label = "" THEN <<>>
      ELSE IF Nullish(value) \/ Trim(value) = "" THEN <<>>
      ELSE <<FieldTuple(label, NoId, value)>>

OldFromDataObject(obj) ==
  IF obj.shape # "object" THEN <<>> ELSE FlatMap(OldObjectTuple, obj.items)

OldPlaceTuples(p) == OldFromDataArray(p) \o OldFromDataObject(p)

\* the entry pushed for a source that answered with an array
OldTryLog(id, endpoint, count) ==
  [id |-> id, endpoint |-> endpoint, got |-> TRUE, count |-> count]

\* p1 and p2: if (p?.ok && Array.isArray(p.body)) { tryLog.push; resultCandidates = p.body }
OldListSource(s, ans, endpoint) ==
  IF ans.kind = "ok" /\ ans.body.isArray
  THEN [s EXCEPT !.tryLog = Append(@, OldTryLog(s.leadId, endpoint, Len(ans.body.items))),
                 !.cand = ans.body.items]
  ELSE s

\* p3 / p3b: the results array at body.results, else at body.data.results
OldExpandArray(b) ==
  IF b.results.isArray THEN b.results
  ELSE IF b.dataResults.isArray THEN b.dataResults
  ELSE NotAnArray

OldExpandSource(s, ans, srcName) ==
  IF ans.kind = "ok" /\ ~ans.body.falsy /\ ans.body.isObject
       /\ OldExpandArray(ans.body).isArray
  THEN [s EXCEPT
          !.tryLog = Append(@, OldTryLog(s.leadId, srcName,
                                         Len(OldExpandArray(ans.body).items))),
          !.cand = OldExpandArray(ans.body).items]
  ELSE s

\* if (resultCandidates.length) { sort; latest; hit(...) over resultFields, fields }
OldCollect(s) ==
  IF s.cand = <<>> THEN s
  ELSE LET latest == Latest([j \in DOMAIN s.cand |-> ResultObjects[s.cand[j]]])
       IN  [s EXCEPT !.seen = HitAll(HitAll(@,
                        "resultFields", OldPlaceTuples(latest.resultFields)),
                        "resultFields", OldPlaceTuples(latest.fields))]


\* ------------------------------------------------------------------------
\* src/index.js 192-257: GET /adversus/leads/enriched
\* ------------------------------------------------------------------------

enVars == <<en, enRes>>

BATCH == 5

\* Most distinct contact ids among the leads of one list.
MaxContacts == 6

\* a lead of the enriched list: contactId NoId is missing, 0 is falsy
ContactLead(id, contactId) == [id |-> id, contactId |-> contactId]

\* leads 1..n with contact ids 1..n, then a lead with the contact of lead 1,
\* one without contactId and one with contactId 0
LeadsWithContacts(n) ==
  [j \in 1..n |-> ContactLead(j, j)]
    \o <<ContactLead(n + 1, 1), ContactLead(n + 2, NoId), ContactLead(n + 3, 0)>>

\* the body of GET /v1/leads for the join: the array (or the object holding
\* it) and the members total, count and totalCount (0: missing or no number)
EnrichPayloads ==
  { ArrayPayload(<<>>),
    ArrayPayload(LeadsWithContacts(MaxContacts)),
    [ObjectPayload(<<Member("items", LeadsWithContacts(2))>>)
       EXCEPT !.count = 40, !.totalCount = 50],
    [ObjectPayload(<<>>) EXCEPT !.total = 7] }

EnrichAnswers ==
  {[kind |-> "throw", status |-> 0, payload |-> NoBody]}
    \cup {[kind |-> "notok", status |-> st, payload |-> NoBody] : st \in UpstreamStatuses}
    \cup {[kind |-> "ok", status |-> 200, payload |-> p] : p \in EnrichPayloads}

\* the values of the limit parameter after parseInt (0: missing, no number,
\* or not positive)
Limits == {0, 3}

\* what fetchContact(id) comes to: the body, null, or a rejection
ContactOutcomes == {"ok", "notok", "throw"}

NoContact == [present |-> FALSE, id |-> NoId]
ContactBody(id) == [present |-> TRUE, id |-> id]

\* the locals of the handler, and for the properties the fetches in flight,
\* the fetches started so far with their batch, and what each settled fetch
\* came to
EnrichIdle ==
  [pc |-> "idle", limit |-> 0, payload |-> NoBody,
   items |-> <<>>, contactIds |-> <<>>, i |-> 0, part |-> <<>>, contacts |-> <<>>,
   inflight |-> {}, log |-> <<>>, batch |-> 0, outcomes |-> {}]

NoEnrichResponse == [status |-> 0, ok |-> FALSE]

EnrichInit ==
  /\ en = EnrichIdle
  /\ enRes = NoEnrichResponse

\* if (limit && items.length > limit) items = items.slice(0, limit)
ApplyLimit(items, limit) ==
  IF limit # 0 /\ Len(items) > limit THEN SubSeq(items, 1, limit) ELSE items

\* [...new Set(items.map(x => x?.contactId).filter(Boolean))]
RECURSIVE UniqueContactIds(_, _)
UniqueContactIds(items, acc) ==
  IF items = <<>> THEN acc
  ELSE LET c == items[1].contactId
       IN  UniqueContactIds(Tail(items),
             IF c = NoId \/ c = 0 THEN acc ELSE AddOnce(acc, c))

\* contactIds.slice(i, i + BATCH), without the upper end
BatchSliceAll(contactIds, i) == SubSeq(contactIds, i + 1, Len(contactIds))

\* contactIds.slice(i, i + BATCH)
BatchSlice(contactIds, i) == SubSeq(contactIds, i + 1, Min(i + BATCH, Len(contactIds)))

\* the object contacts read as if it were empty
ContactOfNone(contacts, id) == NoContact

\* contacts[id] of the object contacts: NoContact when the id is missing
ContactOf(contacts, id) ==
  IF \E j \in DOMAIN contacts : contacts[j].id = id
  THEN (contacts[CHOOSE j \in DOMAIN contacts : contacts[j].id = id]).c
  ELSE NoContact

\* contacts[id] = c
SetContact(contacts, id, c) ==
  IF \E j \in DOMAIN contacts : contacts[j].id = id
  THEN [j \in DOMAIN contacts |->
          IF contacts[j].id = id THEN [id |-> id, c |-> c] ELSE contacts[j]]
  ELSE Append(contacts, [id |-> id, c |-> c])

\* for (const [id, c] of part) contacts[id] = c, part in the order of slice
RECURSIVE MergePart(_, _, _)
MergePart(contacts, slice, part) ==
  IF slice = <<>> THEN contacts
  ELSE MergePart(SetContact(contacts, slice[1], ContactOf(part, slice[1])),
                 Tail(slice), part)

\* items.map(lead => ({ ...lead, contact }))
Enriched(items, contacts) ==
  [j \in DOMAIN items |->
     [id |-> items[j].id, contactId |-> items[j].contactId,
      contact |-> IF items[j].contactId = NoId \/ items[j].contactId = 0
                  THEN NoContact
                  ELSE ContactOf(contacts, items[j].contactId)]]

\* (typeof payload?.total === "number" && payload.total) || ... || enriched.length
TotalCount(payload, returned) ==
  IF payload.total # 0 THEN payload.total
  ELSE IF payload.count # 0 THEN payload.count
  ELSE IF payload.totalCount # 0 THEN payload.totalCount
  ELSE IF payload.kind = "array" /\ Len(payload.items) # 0 THEN Len(payload.items)
  ELSE returned

\* res.json({ ok: true, url, total_count, returned, data: enriched })
EnrichResponse(e, contacts) ==
  [status |-> 200, ok |-> TRUE,
   total_count |-> TotalCount(e.payload, Len(e.items)),
   returned |-> Len(e.items), data |-> Enriched(e.items, contacts)]

\* the loop test at i: the next batch is started, or the join is answered
EnrichLoop(e, i, contacts) ==
  IF i < Len(e.contactIds)
  THEN /\ en' = [e EXCEPT !.pc = "batch", !.i = i, !.contacts = contacts,
                          !.part = <<>>, !.batch = @ + 1,
                          !.inflight = @ \cup {BatchSlice(e.contactIds, i)[j] :
                                                j \in DOMAIN BatchSlice(e.contactIds, i)},
                          !.log = @ \o [j \in DOMAIN BatchSlice(e.contactIds, i) |->
                                          [id |-> BatchSlice(e.contactIds, i)[j],
                                           batch |-> e.batch + 1]]]
       /\ UNCHANGED enRes
  ELSE /\ en' = [e EXCEPT !.pc = "done", !.i = i, !.contacts = contacts, !.part = <<>>]
       /\ enRes' = EnrichResponse(e, contacts)

\* the request arrives: requireSecret, then await adversusGet(`/v1/leads${search}`)
EnrichedRequest(h, q, k, limit) ==
  /\ en.pc = "idle"
  /\ IF ~RequireSecret(h, q, k)
     THEN /\ enRes' = [status |-> 401, ok |-> FALSE]
          /\ UNCHANGED en
     ELSE /\ en' = [EnrichIdle EXCEPT !.pc = "list", !.limit = limit]
          /\ UNCHANGED enRes

\* the list fetch settles
EnrichedListSettles(ans) ==
  /\ en.pc = "list"
  /\ IF ans.kind = "throw"
     THEN /\ en' = [en EXCEPT !.pc = "failed"]
          /\ enRes' = [status |-> 500, ok |-> FALSE]
     ELSE IF ans.kind = "notok"
     THEN /\ en' = [en EXCEPT !.pc = "done"]
          /\ enRes' = [status |-> ans.status, ok |-> FALSE]
     ELSE LET items == ApplyLimit(NormaliseLeads(ans.payload), en.limit)
          IN  EnrichLoop([en EXCEPT !.payload = ans.payload, !.items = items,
                                    !.contactIds = UniqueContactIds(items, <<>>)],
                         0, <<>>)

\* one fetchContact(id) of the batch settles; the last one to settle resolves
\* Promise.all, a rejection rejects it at once
ContactSettles(id, outcome) ==
  /\ id \in en.inflight
  /\ LET e0 == [en EXCEPT !.inflight = @ \ {id},
                          !.outcomes = @ \cup {[id |-> id, outcome |-> outcome]}]
     IN  IF en.pc = "failed"
         THEN /\ en' = e0
              /\ UNCHANGED enRes
         ELSE IF outcome = "throw"
         THEN /\ en' = [e0 EXCEPT !.pc = "failed"]
              /\ enRes' = [status |-> 500, ok |-> FALSE]
         ELSE LET c == IF outcome = "ok" THEN ContactBody(id) ELSE NoContact
                  part == Append(en.part, [id |-> id, c |-> c])
                  e1 == [e0 EXCEPT !.part = part]
              IN  IF e1.inflight # {}
                  THEN /\ en' = e1
                       /\ UNCHANGED enRes
                  ELSE EnrichLoop(e1, en.i + BATCH,
                                  MergePart(en.contacts, BatchSlice(en.contactIds, en.i),
                                            part))

\* ------------------------------------------------------------------------
\* src/index.js 154-189: GET /adversus/leads
\* ------------------------------------------------------------------------

ldVars == <<ld, ldRes>>

\* Records of the longest list the leads endpoint is given.
MaxRows == 4

\* the list of the first n records
Rows(n) == [j \in 1..n |-> Lead(j, NoId)]

\* the values of ?limit= the model sends; ABSENT when the parameter is missing
LimitQueries == {ABSENT, "", "0", "-1", "2", "3abc", "abc", "2.7"}

\* parseInt(String(req.query.limit ?? ""), 10): the leading digits after an
\* optional sign; nan when there are none
ParseInt(s) ==
  CASE s = "0" -> [nan |-> FALSE, n |-> 0]
    [] s = "-1" -> [nan |-> FALSE, n |-> -1]
    [] s = "2" -> [nan |-> FALSE, n |-> 2]
    [] s = "3abc" -> [nan |-> FALSE, n |-> 3]
    [] s = "2.7" -> [nan |-> FALSE, n |-> 2]
    [] OTHER -> [nan |-> TRUE, n |-> 0]

\* Number.isFinite(limitQ) && limitQ > 0 ? limitQ : null (0 stands for null)
LimitOf(s) ==
  LET limitQ == ParseInt(IF s = ABSENT THEN "" ELSE s)
  IN  IF ~limitQ.nan /\ limitQ.n > 0 THEN limitQ.n ELSE 0

\* the bodies of GET /v1/leads the leads endpoint is run on
RowPayloads ==
  UNION {{ ArrayPayload(Rows(n)),
           ObjectPayload(<<Member("leads", Rows(n))>>),
           ObjectPayload(<<Member("data", Rows(n))>>),
           [ObjectPayload(<<Member("items", Rows(n))>>) EXCEPT !.total = 7],
           [ArrayPayload(Rows(n)) EXCEPT !.count = 40],
           [ObjectPayload(<<Member("rows", Rows(n))>>) EXCEPT !.totalCount = 50],
           ObjectPayload(<<NoArrayMember("data"), Member("list", Rows(n))>>),
           ObjectPayload(<<Member("leads", Rows(n)), Member("results", Rows(1))>>),
           ObjectPayload(<<Member("hits", Rows(n)), Member("items", <<>>),
                           Member("leads", Rows(2))>>),
           ObjectPayload(<<NoArrayMember("meta"), Member("found", Rows(n)),
                           Member("more", Rows(1))>>) } : n \in 0..MaxRows}
    \cup {NoBody, ObjectPayload(<<>>), ObjectPayload(<<NoArrayMember("items")>>)}

\* the statuses of the upstream answers that are not ok
ErrorStatuses == {404, 500}

\* error: ... r.body.slice(0, 2000)
EXCERPT == 2000

\* the lengths of the bodies that are texts
TextLengths == {9, 2000, 2001}

\* What the upstream does with a fetch: no answer at all (net), or a response
\* with a status and a body.  raw is "json" (a JSON object or array, payload),
\* "jsonText" (a JSON string of len characters), "text" (len characters that
\* are no JSON) or "empty" (no body).
Upstream(status, raw, payload, len) ==
  [net |-> FALSE, status |-> status, raw |-> raw, payload |-> payload, len |-> len]

NoAnswer == [Upstream(0, "empty", NoBody, 0) EXCEPT !.net = TRUE]

Upstreams ==
  {NoAnswer}
    \cup {Upstream(200, "json", p, 0) : p \in RowPayloads}
    \cup {Upstream(st, "json", ObjectPayload(<<NoArrayMember("message")>>), 0) :
            st \in ErrorStatuses}
    \cup {Upstream(st, raw, NoBody, n) :
            st \in ErrorStatuses \cup {200}, raw \in {"jsonText", "text"}, n \in TextLengths}
    \cup {Upstream(st, "empty", NoBody, 0) : st \in ErrorStatuses}

\* what await adversusGet(url) comes to for an upstream answer u: kind is
\* "throw" (it rejects), else "ok" / "notok" by r.ok, with the status and the
\* body: payload, or a text of bodyLen characters.  fetch rejects when there is
\* no answer; r.json() reads the body to its end and rejects for a text or an
\* empty body, after which r.text() yields "" for an empty body and rejects
\* for a body that was read already.
AdversusGetResult(u) ==
  IF u.net \/ u.raw = "text"
  THEN [kind |-> "throw", status |-> 0, payload |-> NoBody,
        bodyIsText |-> FALSE, bodyLen |-> 0, up |-> u]
  ELSE [kind |-> IF u.status \in 200..299 THEN "ok" ELSE "notok",
        status |-> u.status,
        payload |-> IF u.raw = "json" THEN u.payload ELSE NoBody,
        bodyIsText |-> u.raw # "json",
        bodyLen |-> IF u.raw = "jsonText" THEN u.len ELSE 0,
        up |-> u]

RowAnswers == {AdversusGetResult(u) : u \in Upstreams}

\* the locals of the handler: the limit parameter as sent, the body of the
\* list fetch and the list resolved from it before the limit is applied
LeadsIdle ==
  [pc |-> "idle", limitQ |-> ABSENT, payload |-> NoBody, all |-> <<>>,
   up |-> NoAnswer, fetches |-> 0]

\* a response: upstream is the member status of the body (0: none), error the
\* member error: "body" with the length of the text (0: no text) or "message"
NoLeadsResponse ==
  [status |-> 0, ok |-> FALSE, total_count |-> 0, returned |-> 0,
   truncated |-> FALSE, data |-> <<>>, upstream |-> 0, error |-> "none",
   errorLen |-> 0]

\* res.status(r.status || 500).json({ ok: false, status: r.status, url: r.url,
\*   error: typeof r.body === "string" ? r.body.slice(0, 2000) : r.body })
LeadsNotOk(ans) ==
  [NoLeadsResponse EXCEPT
     !.status = IF ans.status = 0 THEN 500 ELSE ans.status,
     !.upstream = ans.status,
     !.error = "body",
     !.errorLen = IF ans.bodyIsText THEN Min(ans.bodyLen, EXCERPT) ELSE 0]

\* catch (e) { res.status(500).json({ ok: false, error: String(e.message || e) }) }
LeadsCaught == [NoLeadsResponse EXCEPT !.status = 500, !.error = "message"]

LeadsInit ==
  /\ ld = LeadsIdle
  /\ ldRes = NoLeadsResponse

\* items = items.slice(0, limit) one record short
SliceShort(items, limit) ==
  IF limit # 0 /\ Len(items) > limit THEN SubSeq(items, 1, limit - 1) ELSE items

\* if (limit && items.length > limit) { items = items.slice(0, limit); truncated = true; }
Slice(items, limit) ==
  IF limit # 0 /\ Len(items) > limit THEN SubSeq(items, 1, limit) ELSE items

Truncated(items, limit) == limit # 0 /\ Len(items) > limit

\* res.json({ ok: true, url, total_count, returned, truncated, data: items })
LeadsResponse(payload, limit) ==
  LET all == NormaliseLeads(payload)
      items == Slice(all, limit)
  IN  [NoLeadsResponse EXCEPT
         !.status = 200, !.ok = TRUE,
         !.total_count = TotalCount(payload, Len(items)),
         !.returned = Len(items), !.truncated = Truncated(all, limit),
         !.data = items]

\* app.get("/adversus/leads", requireSecret, ...) up to the await
LeadsRequest(h, q, k, limitQ) ==
  /\ ld.pc = "idle"
  /\ IF ~RequireSecret(h, q, k)
     THEN /\ ldRes' = [NoLeadsResponse EXCEPT !.status = 401]
          /\ UNCHANGED ld
     ELSE /\ ld' = [LeadsIdle EXCEPT !.pc = "list", !.limitQ = limitQ, !.fetches = 1]
          /\ UNCHANGED ldRes

\* the list fetch settles, and the handler answers
LeadsSettles(ans) ==
  /\ ld.pc = "list"
  /\ IF ans.kind = "throw"
     THEN /\ ld' = [ld EXCEPT !.pc = "failed", !.up = ans.up]
          /\ ldRes' = LeadsCaught
     ELSE IF ans.kind = "notok"
     THEN /\ ld' = [ld EXCEPT !.pc = "done", !.up = ans.up]
          /\ ldRes' = LeadsNotOk(ans)
     ELSE /\ ld' = [ld EXCEPT !.pc = "done", !.payload = ans.payload,
                              !.all = NormaliseLeads(ans.payload), !.up = ans.up]
          /\ ldRes' = LeadsResponse(ans.payload, LimitOf(ld.limitQ))

\* ------------------------------------------------------------------------
\* src/index.js 527-624: GET /adversus/leads/inspect_nonpii
\* ------------------------------------------------------------------------

npVars == <<np, npRes>>

DIRECT_KEYS ==
  << "id", "campaignId", "created", "updated", "importedTime", "lastUpdatedTime",
     "lastModifiedTime", "nextContactTime", "contactAttempts",
     "contactAttemptsInvalid", "lastContactedBy", "status", "active", "vip",
     "common_redial", "externalId", "import_id" >>

\* a record of the list: its scalar members (name k, value) and the four
\* containers the handler reads
Row ==
  [direct |-> <<>>, masterData |-> NoContainer, resultData |-> NoContainer,
   dataMasterData |-> NoContainer, dataResultData |-> NoContainer]

DirectMember(k, v) == [k |-> k, value |-> v]

\* row?.[k]
DirectValue(row, k) ==
  IF \E j \in DOMAIN row.direct : row.direct[j].k = k
  THEN row.direct[CHOOSE j \in DOMAIN row.direct : row.direct[j].k = k].value
  ELSE ABSENT

\* one element of fromDataArray: { label, value }
NonpiiArrayItem(e) ==
  LET it == AsObject(e)
      label == Trim(Coalesce(<<it.label, it.name, it.title, it.key, "">>))
      value == ArrayItemValue(it)
  IN  IF label = "" THEN <<>>
      ELSE IF Nullish(value) \/ Trim(value) = "" THEN <<>>
      ELSE <<[label |-> label, value |-> value]>>

\* fromDataArray(arr)
NonpiiFromDataArray(arr) ==
  IF arr.shape # "array" THEN <<>> ELSE FlatMap(NonpiiArrayItem, arr.items)

\* one member of fromDataObject: the label is the member name
NonpiiObjectMember(v) ==
  LET label == Trim(v.k)
      value == IF v.kind = "null" THEN NULL
               ELSE IF v.kind = "scalar" THEN v.value
               ELSE Coalesce(<<v.value, v.val, v.text, ValuesJoined(v, ABSENT)>>)
  IN  IF label = "" THEN <<>>
      ELSE IF Nullish(value) \/ Trim(value) = "" THEN <<>>
      ELSE <<[label |-> label, value |-> value]>>

\* fromDataObject(obj)
NonpiiFromDataObject(obj) ==
  IF obj.shape # "object" THEN <<>> ELSE FlatMap(NonpiiObjectMember, obj.items)

\* one call hit(fieldId, val)
HitCall(fieldId, val) == [field |-> fieldId, val |-> val]

\* xs.forEach(({label,value}) => hit(`${prefix}.${label}`, value)): the calls
Prefixed(prefix, xs) ==
  [j \in DOMAIN xs |-> HitCall(prefix \o "." \o xs[j].label, xs[j].value)]

\* the calls of hit the body of rows.forEach makes for one row, in order
RowHits(row) ==
  [j \in DOMAIN DIRECT_KEYS |-> HitCall(DIRECT_KEYS[j], DirectValue(row, DIRECT_KEYS[j]))]
    \o Prefixed("masterData", NonpiiFromDataArray(row.masterData))
    \o Prefixed("resultData", NonpiiFromDataArray(row.resultData))
    \o Prefixed("masterData", NonpiiFromDataObject(row.masterData))
    \o Prefixed("resultData", NonpiiFromDataObject(row.resultData))
    \o Prefixed("masterData", NonpiiFromDataArray(row.dataMasterData))
    \o Prefixed("resultData", NonpiiFromDataArray(row.dataResultData))
    \o Prefixed("masterData", NonpiiFromDataObject(row.dataMasterData))
    \o Prefixed("resultData", NonpiiFromDataObject(row.dataResultData))

\* hit(fieldId, val)
NonpiiHit(seen, h) ==
  IF Nullish(h.val) \/ Trim(h.val) = "" THEN seen
  ELSE Count(seen, h.field, h.val)

RECURSIVE NonpiiHitAll(_, _)
\* the calls hs made in order on seen
NonpiiHitAll(seen, hs) ==
  IF hs = <<>> THEN seen
  ELSE NonpiiHit(NonpiiHitAll(seen, SubSeq(hs, 1, Len(hs) - 1)), hs[Len(hs)])

RECURSIVE SeenAfter(_)
\* rows.forEach(row => { ... }): seen after the rows
SeenAfter(rows) ==
  IF rows = <<>> THEN <<>>
  ELSE LET \* the rows before the last one are done when its calls are made
           before == SeenAfter(SubSeq(rows, 1, Len(rows) - 1))
       IN  IF before = <<>> THEN NonpiiHitAll(<<>>, RowHits(rows[Len(rows)]))
           ELSE NonpiiHitAll(before, RowHits(rows[Len(rows)]))

\* The pairs <<count, total>>, total up to 200 and count up to total, for
\* which the double (count / total) * 100 falls just below the half that the
\* exact product is (23 / 40 * 100 is 57.49999999999999).
BelowHalf ==
  { <<23, 40>>, <<46, 80>>, <<69, 120>>, <<92, 160>>,
    <<29, 200>>, <<57, 200>>, <<113, 200>>, <<115, 200>> }

\* num / den rounded to the nearest integer, a half upwards
RoundHalfUp(num, den) == (2 * num + den) \div (2 * den)

\* (count / total) * 100 truncated
CoveragePctFloor(count, total) == (100 * count) \div total

\* Math.round((info.count / total) * 100), the arithmetic in doubles
CoveragePct(count, total) ==
  IF <<count, total>> \in BelowHalf
  THEN RoundHalfUp(100 * count, total) - 1
  ELSE RoundHalfUp(100 * count, total)

\* a.field.localeCompare(b.field) < 0 on the fields of the model
NonpiiFieldOrder ==
  << "id", "masterData.city", "resultData.note", "resultData.phone", "status" >>
NonpiiFieldRank(f) ==
  IF \E j \in DOMAIN NonpiiFieldOrder : NonpiiFieldOrder[j] = f
  THEN CHOOSE j \in DOMAIN NonpiiFieldOrder : NonpiiFieldOrder[j] = f
  ELSE 0

\* ties left in the order of insertion
NonpiiBeforeNoTie(x, y) == x.coverage_pct > y.coverage_pct

\* .sort((a,b) => (b.coverage_pct - a.coverage_pct) || a.field.localeCompare(b.field))
NonpiiBefore(x, y) ==
  \/ x.coverage_pct > y.coverage_pct
  \/ /\ x.coverage_pct = y.coverage_pct
     /\ NonpiiFieldRank(x.field) < NonpiiFieldRank(y.field)

\* const total = rows.length || 1; Object.entries(seen).map(...).sort(...)
Summary(seen, rows) ==
  LET total == IF Len(rows) = 0 THEN 1 ELSE Len(rows)
  IN  SortBy(NonpiiBefore,
             [j \in DOMAIN seen |->
                [field |-> seen[j].field,
                 coverage_pct |-> CoveragePct(seen[j].count, total),
                 count |-> seen[j].count, example |-> seen[j].example]])

\* res.json({ ok: true, total_rows: rows.length, fields: summary })
NonpiiResponse(rows) ==
  [status |-> 200, ok |-> TRUE, total_rows |-> Len(rows),
   fields |-> Summary(SeenAfter(rows), rows)]

\* the records of the model
PlainRow == [Row EXCEPT !.direct = <<DirectMember("name", "Ann")>>]
StatusRow == [Row EXCEPT !.direct = <<DirectMember("status", "open")>>]
BlankStatusRow ==
  [Row EXCEPT !.direct = <<DirectMember("status", " "), DirectMember("id", NULL)>>,
              !.masterData = ArrayOf(<<Labelled("", "city", "Oslo")>>)]
ClosedRow ==
  [Row EXCEPT !.direct = <<DirectMember("id", "7"), DirectMember("status", "closed")>>,
              !.resultData = ArrayOf(<<Labelled("", "phone", "11"),
                                       Labelled("", "phone", "22")>>),
              !.dataResultData = ObjectOf(<<Scalar("phone", "33"), Scalar("note", " ")>>)]
CityRow ==
  [Row EXCEPT !.masterData = ObjectOf(<<Scalar("city", "Rome")>>),
              !.dataMasterData = ArrayOf(<<Labelled("", "city", "")>>)]
PhoneDirectRow == [Row EXCEPT !.direct = <<DirectMember("phone", "555-0100")>>]
PhoneNestedRow == [Row EXCEPT !.resultData = ObjectOf(<<Scalar("phone", "555-0199")>>)]

RowKinds == {StatusRow, BlankStatusRow, ClosedRow, CityRow, PhoneNestedRow}

\* Records of the longest list of mixed records.
MaxMixedRows == 3

\* Records of the longest list made for the coverage figures.
MaxCoverRows == 40

RECURSIVE ListsOf(_, _)
\* the lists of n elements of S
ListsOf(S, n) ==
  IF n = 0 THEN {<<>>}
  ELSE {Append(l, x) : l \in ListsOf(S, n - 1), x \in S}

\* n records of which the first c have a status
CoverList(n, c) == [j \in 1..n |-> IF j <= c THEN StatusRow ELSE PlainRow]

\* ten records: phone directly on six, under resultData on two others
TenRows ==
  [j \in 1..10 |-> IF j <= 6 THEN PhoneDirectRow
                   ELSE IF j <= 8 THEN PhoneNestedRow ELSE PlainRow]

\* the lists GET /v1/leads answers with
RowLists ==
  UNION {ListsOf(RowKinds, n) : n \in 0..MaxMixedRows}
    \cup UNION {{CoverList(n, c) : c \in 0..n} : n \in 1..MaxCoverRows}
    \cup {TenRows}

NonpiiAnswers ==
  {[kind |-> "throw", status |-> 0, payload |-> NoBody]}
    \cup {[kind |-> "notok", status |-> st, payload |-> NoBody] : st \in UpstreamStatuses}
    \cup {[kind |-> "ok", status |-> 200, payload |-> ArrayPayload(l)] : l \in RowLists}
    \cup {[kind |-> "ok", status |-> 200,
           payload |-> ObjectPayload(<<Member("data", TenRows)>>)]}

\* the locals of the handler: the rows resolved from the body and, for the
\* properties, the calls of hit in the order they were made
NonpiiIdle == [pc |-> "idle", rows |-> <<>>, hits |-> <<>>]

NoNonpiiResponse == [status |-> 0, ok |-> FALSE, total_rows |-> 0, fields |-> <<>>]

NonpiiInit ==
  /\ np = NonpiiIdle
  /\ npRes = NoNonpiiResponse

\* app.get("/adversus/leads/inspect_nonpii", requireSecret, ...) up to the await
NonpiiRequest(h, q, k) ==
  /\ np.pc = "idle"
  /\ IF ~RequireSecret(h, q, k)
     THEN /\ npRes' = [NoNonpiiResponse EXCEPT !.status = 401]
          /\ UNCHANGED np
     ELSE /\ np' = [NonpiiIdle EXCEPT !.pc = "list"]
          /\ UNCHANGED npRes

\* the list fetch settles, and the handler answers
NonpiiSettles(ans) ==
  /\ np.pc = "list"
  /\ IF ans.kind = "throw"
     THEN /\ np' = [np EXCEPT !.pc = "failed"]
          /\ npRes' = [NoNonpiiResponse EXCEPT !.status = 500]
     ELSE IF ans.kind = "notok"
     THEN /\ np' = [np EXCEPT !.pc = "done"]
          /\ npRes' = [NoNonpiiResponse EXCEPT !.status = ans.status]
     ELSE /\ np' = [np EXCEPT !.pc = "done", !.rows = NormaliseLeads(ans.payload),
                              !.hits = FlatMap(RowHits, NormaliseLeads(ans.payload))]
          /\ npRes' = NonpiiResponse(NormaliseLeads(ans.payload))

\* ------------------------------------------------------------------------
\* src/index.js 126-137 and 435-453: adversusGet
\* ------------------------------------------------------------------------

fetchVars == <<calls>>

rqVars == <<rq, rqRes>>

\* the requests that are under way together
Requests == {1, 2}

\* a request: the locals s of its handler and, for the properties, the
\* answers its fetches got and whether a step of it was taken while the other
\* request was under way
ConcIdle == [s |-> ScanIdle, answers |-> <<>>, overlap |-> FALSE]

ConcInit ==
  /\ rq = [r \in Requests |-> ConcIdle]
  /\ rqRes = [r \in Requests |-> NoScanResponse]

\* Calls of adversusGet the model follows.
MaxCalls == 3

CallIds == 1..MaxCalls

\* setTimeout(() => controller.abort(), 15000) and the 20000 of the later
\* server
Timeouts == {15000, 20000}

\* a call: st is "none" (not made), "fetching" (await fetch), "reading"
\* (await r.json()), "readingText" (await r.text()), "resolved" or
\* "rejected"; timer is the pending setTimeout (0: none, or cleared); error
\* is the message of the rejection
NoCall == [st |-> "none", timer |-> 0, error |-> ""]

FetchInit == calls = [c \in CallIds |-> NoCall]

\* new Error(`Fetch failed: ${err?.name || ""} ${err?.message || err}`)
FetchFailed(name) == "Fetch failed: " \o name

\* adversusGet(pathWithQuery) is called: the timer is set, fetch is awaited
AdversusGetCall(c, ms) ==
  /\ calls[c].st = "none"
  /\ calls' = [calls EXCEPT ![c] = [st |-> "fetching", timer |-> ms, error |-> ""]]

\* the response headers arrive: fetch resolves, clearTimeout(t), r.json() is
\* awaited
HeadersArrive(c) ==
  /\ calls[c].st = "fetching"
  /\ calls' = [calls EXCEPT ![c].st = "reading", ![c].timer = 0]

\* fetch rejects with a network error: the .catch rethrows, and the timer
\* is left running
FetchRejects(c) ==
  /\ calls[c].st = "fetching"
  /\ calls' = [calls EXCEPT ![c].st = "rejected",
                            ![c].error = FetchFailed("TypeError fetch failed")]

\* the timer fires: controller.abort(); a fetch that is awaited rejects with
\* an AbortError, which the .catch rethrows
TimeoutFires(c) ==
  /\ calls[c].timer # 0
  /\ calls' = [calls EXCEPT
       ![c].timer = 0,
       ![c].st = IF @ = "fetching" THEN "rejected" ELSE @,
       ![c].error = IF calls[c].st = "fetching"
                    THEN FetchFailed("AbortError This operation was aborted")
                    ELSE @]

\* r.json() resolves
JsonRead(c) ==
  /\ calls[c].st = "reading"
  /\ calls' = [calls EXCEPT ![c].st = "resolved"]

\* r.json() rejects: catch { body = await r.text() }
JsonRejects(c) ==
  /\ calls[c].st = "reading"
  /\ calls' = [calls EXCEPT ![c].st = "readingText"]

\* r.text() settles: with the text, or with the error of a body that was
\* read already
TextSettles(c, outcome) ==
  /\ calls[c].st = "readingText"
  /\ calls' = IF outcome = "ok"
              THEN [calls EXCEPT ![c].st = "resolved"]
              ELSE [calls EXCEPT ![c].st = "rejected",
                                 ![c].error = "TypeError Body is unusable"]

\* ------------------------------------------------------------------------
\* src/unnamed/part_002 29-70, 107-113 and part_005 86-108: what a request
\* is answered by servers that differ in WEBHOOK_SECRET only
\* ------------------------------------------------------------------------
hyVars == <<hy>>

\* the secrets the servers are configured with: two of one length and a
\* shorter one
OtherSecret == "testsecret124"
ShortSecret == "s3cret"
ConfiguredSecrets == {GoodSecret, OtherSecret, ShortSecret}

\* String.prototype.length on the strings a request or the environment holds
LengthOf(s) ==
  CASE s = "" -> 0
    [] s = " " -> 1
    [] s = "wrong" -> 5
    [] s = ShortSecret -> 6
    [] OTHER -> 13

\* <<header, ?secret, ?key>> of the request
SuppliedValues == {"", "wrong", GoodSecret, ShortSecret}
HyCredentials == {<<h, q, k>> : h \in SuppliedValues, q \in SuppliedValues, k \in SuppliedValues}

\* part_002 29-58: usedSource of readSecrets on a server configured with env
UsedSource(env, h, q, k) ==
  IF h # "" /\ env # "" /\ h = env THEN "header:secret"
  ELSE IF q # "" /\ env # "" /\ q = env THEN "query:secret"
  ELSE IF k # "" /\ env # "" /\ k = env THEN "query:key"
  ELSE NULL

\* an answer: the lengths are NoId when the body has no lengths member
Answer(status, ok, usedSource, lengths) ==
  [status |-> status, ok |-> ok, usedSource |-> usedSource, lengths |-> lengths]

NoLengths ==
  [envSecret |-> NoId, headerSecret |-> NoId, querySecret |-> NoId, queryKey |-> NoId]

\* part_002 107-113: app.get("/_show-secret"): 401 or 200, with ...info
ShowSecret(env, h, q, k) ==
  LET usedSource == UsedSource(env, h, q, k)
      lengths == [envSecret |-> LengthOf(env), headerSecret |-> LengthOf(h),
                  querySecret |-> LengthOf(q), queryKey |-> LengthOf(k)]
  IN  IF usedSource = NULL
      THEN Answer(401, FALSE, NULL, lengths)
      ELSE Answer(200, TRUE, usedSource, lengths)

\* part_005 86-108: app.get("/__diag"), which has no requireSecret
Diag(env, h, q, k) ==
  LET used == IF Trim(h) # "" THEN "header:x-adversus-secret"
              ELSE IF Trim(q) # "" THEN "query:secret"
              ELSE IF Trim(k) # "" THEN "query:key"
              ELSE "none"
  IN  Answer(200, TRUE, used,
             [envSecret |-> LengthOf(env), headerSecret |-> LengthOf(Trim(h)),
              querySecret |-> LengthOf(Trim(q)), queryKey |-> LengthOf(Trim(k))])

\* part_002 61-70 and 116: a route behind requireSecret (the debug events)
Protected(env, h, q, k) ==
  IF UsedSource(env, h, q, k) = NULL
  THEN Answer(401, FALSE, NULL, NoLengths)
  ELSE Answer(200, TRUE, NULL, NoLengths)

HyRoutes == {"/_show-secret", "/__diag", "/_debug/events"}

AnswerOf(route, env, h, q, k) ==
  CASE route = "/_show-secret" -> ShowSecret(env, h, q, k)
    [] route = "/__diag" -> Diag(env, h, q, k)
    [] OTHER -> Protected(env, h, q, k)

HyIdle ==
  [pc |-> "idle", route |-> NULL, cred |-> <<"", "", "">>,
   out |-> [env \in ConfiguredSecrets |-> Answer(0, FALSE, NULL, NoLengths)]]

HyInit == hy = HyIdle

\* the request is sent to each server and answered
RequestToEach(route, h, q, k) ==
  /\ hy.pc = "idle"
  /\ hy' = [pc |-> "done", route |-> route, cred |-> <<h, q, k>>,
            out |-> [env \in ConfiguredSecrets |-> AnswerOf(route, env, h, q, k)]]

\* ------------------------------------------------------------------------
\* The specifications
\* ------------------------------------------------------------------------

vars == <<webVars, scanVars, enVars, fetchVars, ldVars, npVars, rqVars, foVars, hyVars>>

\* what the actions of each part leave alone
WebFrame == <<scanVars, enVars, fetchVars, ldVars, npVars, rqVars, foVars, hyVars>>
ScanFrame == <<webVars, enVars, fetchVars, ldVars, npVars, rqVars, foVars, hyVars>>
EnrichFrame == <<webVars, scanVars, fetchVars, ldVars, npVars, rqVars, foVars, hyVars>>
FetchFrame == <<webVars, scanVars, enVars, ldVars, npVars, rqVars, foVars, hyVars>>
LeadsFrame == <<webVars, scanVars, enVars, fetchVars, npVars, rqVars, foVars, hyVars>>
NonpiiFrame == <<webVars, scanVars, enVars, fetchVars, ldVars, rqVars, foVars, hyVars>>
ConcFrame == <<webVars, scanVars, enVars, fetchVars, ldVars, npVars, foVars, hyVars>>
HyFrame == <<webVars, scanVars, enVars, fetchVars, ldVars, npVars, rqVars, foVars>>
FoFrame == <<webVars, scanVars, enVars, fetchVars, ldVars, npVars, rqVars, hyVars>>

Init ==
  /\ WebInit /\ ScanInit /\ EnrichInit /\ FetchInit /\ LeadsInit /\ NonpiiInit
  /\ ConcInit
  /\ HyInit
  /\ FoInit

\* the model's bound on the webhook handlers suspended together
OverlapAllowed == \A s \in pending : seq + 1 - s < MaxOverlap

\* The long run: the webhook and the debug read, until the buffer overflows.
\* ------------------------------------------------------------------------
\* src/unnamed/part_000 35-44, part_005 25-38, part_006 35-45: the earlier
\* requireSecret, and the debug route it guards
\* ------------------------------------------------------------------------

\* what a request to an earlier server carries: Credentials, and a blank
\* header with a good query value (part_005 trims what it reads)
EarlierCredentials == Credentials \cup {<<" ", GoodSecret, "">>, <<" ", "", "">>}

\* ok without the test of WEBHOOK_SECRET
RequireSecretFirstNoEnvCheck(h, q, k) ==
  h = envSecret \/ (IF q # "" THEN q ELSE k) = envSecret

\* part_000 35-44 and part_006 35-45:
\* ok = WEBHOOK_SECRET && (headerSecret === WEBHOOK_SECRET
\*                         || (req.query.secret || req.query.key) === WEBHOOK_SECRET)
RequireSecretFirst(h, q, k) ==
  envSecret # "" /\ (h = envSecret \/ (IF q # "" THEN q ELSE k) = envSecret)

\* part_005 25-30: getProvidedSecret
GetProvidedSecret(h, q, k) ==
  IF Trim(h) # "" THEN Trim(h) ELSE Trim(IF q # "" THEN q ELSE k)

\* part_005 32-38: 401 when !WEBHOOK_SECRET || !provided || provided !== WEBHOOK_SECRET
RequireSecretTrimmed(h, q, k) ==
  ~(envSecret = "" \/ GetProvidedSecret(h, q, k) = ""
      \/ GetProvidedSecret(h, q, k) # envSecret)

\* the servers with their own requireSecret
EarlierServers == {"part_000", "part_005"}

RequireSecretOf(v, h, q, k) ==
  IF v = "part_000" THEN RequireSecretFirst(h, q, k)
  ELSE RequireSecretTrimmed(h, q, k)

\* part_000 75-77 and part_005 62-64:
\* app.get("/_debug/events", requireSecret, (req, res) => res.json(lastEvents))
EarlierDebugEvents(v, h, q, k) ==
  /\ res' = IF ~RequireSecretOf(v, h, q, k)
            THEN Unauthorized(v)
            ELSE [route |-> v, status |-> 200, ok |-> TRUE, stamp |-> seq,
                  body |-> lastEvents, logged |-> NULL]
  /\ UNCHANGED <<envSecret, pgPool, lastEvents, seq, pending, dbAttempts,
                 upstream, lastPosted, replies>>

Next ==
  \/ /\ seq < MaxWebhooks
     /\ OverlapAllowed
     /\ \E c \in FewCredentials, p \in PayloadChoices(seq) :
          WebhookAdversus(c[1], c[2], c[3], p) /\ UNCHANGED WebFrame
  \/ \E s \in pending, o \in InsertOutcomes : InsertSettles(s, o) /\ UNCHANGED WebFrame
  \/ \E c \in FewCredentials : DebugEvents(c[1], c[2], c[3]) /\ UNCHANGED WebFrame

Spec == Init /\ [][Next]_vars

\* Every protected route with every credential, over a short run.
NextAuth ==
  \/ /\ seq < MaxAuthWebhooks
     /\ OverlapAllowed
     /\ \E c \in Credentials, i \in DOMAIN Payloads :
          WebhookAdversus(c[1], c[2], c[3], Payloads[i]) /\ UNCHANGED WebFrame
  \/ \E s \in pending, o \in InsertOutcomes : InsertSettles(s, o) /\ UNCHANGED WebFrame
  \/ \E c \in Credentials : DebugEvents(c[1], c[2], c[3]) /\ UNCHANGED WebFrame
  \/ /\ upstream < MaxUpstream
     /\ \E c \in Credentials : CampaignsRequest(c[1], c[2], c[3]) /\ UNCHANGED WebFrame
  \/ \E o \in FetchOutcomes : CampaignsSettles(o) /\ UNCHANGED WebFrame

SpecAuth == Init /\ [][NextAuth]_vars

\* The webhook with its INSERT, which settles: every INSERT handed to the
\* pool resolves or rejects in the end.
SpecWebhook ==
  /\ Init
  /\ [][NextAuth]_vars
  /\ \A s \in 1..MaxAuthWebhooks :
       WF_vars(\E o \in InsertOutcomes : InsertSettles(s, o) /\ UNCHANGED WebFrame)

\* The protected routes of the server and the debug route of the earlier
\* servers, with every credential.
NextVariants ==
  \/ NextAuth
  \/ \E v \in EarlierServers, c \in EarlierCredentials :
       EarlierDebugEvents(v, c[1], c[2], c[3]) /\ UNCHANGED WebFrame

SpecVariants == Init /\ [][NextVariants]_vars




\* ------------------------------------------------------------------------
\* The scan handlers, one action per stretch between two awaits
\* ------------------------------------------------------------------------

\* the endpoints: "ids" is resultdata_ids_preview, "deep" is
\* inspect_resultfields_deep of src/index.js, "deepOld" the one of part_006
Endpoints == {"ids", "deep", "deepOld"}

\* the url fetched at each position of the per-lead code
Url(endpoint, pc) ==
  IF endpoint = "deep"
  THEN CASE pc = "A" -> "leads/{id}?expand=resultFields"
         [] pc = "Ainc" -> "leads/{id}?include=resultFields"
         [] OTHER -> "leads/{id}?expand=results"
  ELSE CASE pc = "A" -> "leads/{id}/results"
         [] pc = "B" -> "results?leadId"
         [] pc = "C" -> "leads/{id}?expand=results"
         [] OTHER -> "leads/{id}?include=results"

\* await delay(250) / delay(700) / delay(900)
DelayMs(endpoint) ==
  CASE endpoint = "ids" -> 250
    [] endpoint = "deep" -> 700
    [] OTHER -> 900

\* the upper limit and the default of the sample parameter
SampleMax(endpoint) == IF endpoint = "ids" THEN 30 ELSE 20
SampleDefault(endpoint) == IF endpoint = "ids" THEN 15 ELSE 10

\* the answer after the loop
ScanResponse(s) == IF s.endpoint = "ids" THEN IdsResponse(s) ELSE DeepResponse(s)

\* the awaited fetch has settled and the next one is awaited
Goto(s1, pcNext) ==
  /\ sc' = [s1 EXCEPT !.pc = pcNext]
  /\ net' = Issue(Settle(net, sc.leadId, Url(sc.endpoint, sc.pc)),
                  sc.leadId, Url(sc.endpoint, pcNext))
  /\ UNCHANGED scanRes

\* the awaited fetch has settled and the delay after the lead is awaited
Pace(s1) ==
  /\ sc' = [s1 EXCEPT !.pc = "delay"]
  /\ net' = [Settle(net, sc.leadId, Url(sc.endpoint, sc.pc))
               EXCEPT !.timer = DelayMs(sc.endpoint)]
  /\ UNCHANGED scanRes

\* for (const lead of toScan) from index s1.i on: the first lead that is not
\* skipped starts its first fetch; after the last lead the answer is sent
Continue(s1, n1) ==
  LET j == NextLead(s1.toScan, s1.i)
  IN  IF j <= Len(s1.toScan)
      THEN /\ sc' = [s1 EXCEPT !.i = j, !.leadId = LeadIdOf(s1.toScan[j]),
                               !.hits = <<>>, !.tried = <<>>, !.cand = <<>>,
                               !.pc = "A"]
           /\ net' = Issue(n1, LeadIdOf(s1.toScan[j]), Url(s1.endpoint, "A"))
           /\ UNCHANGED scanRes
      ELSE /\ sc' = [s1 EXCEPT !.i = j, !.pc = "done"]
           /\ net' = n1
           /\ scanRes' = ScanResponse(s1)

\* the request arrives: requireSecret, then
\* await adversusGet(`/v1/leads${search}`)
ScanRequest(h, q, k, endpoint, requireSuccess, sample) ==
  /\ sc.pc = "idle"
  /\ IF ~RequireSecret(h, q, k)
     THEN /\ scanRes' = ScanFailure(401)
          /\ UNCHANGED <<sc, net>>
     ELSE /\ sc' = [ScanIdle EXCEPT !.endpoint = endpoint, !.pc = "list",
                                    !.requireSuccess = requireSuccess,
                                    !.sample = sample]
          /\ net' = Issue(net, NoId, "leads")
          /\ UNCHANGED scanRes

\* the list fetch settles
ListSettles(ans) ==
  /\ sc.pc = "list"
  /\ IF ans.kind = "throw"
     THEN /\ sc' = [sc EXCEPT !.pc = "done"]
          /\ net' = Settle(net, NoId, "leads")
          /\ scanRes' = ScanFailure(500)
     ELSE IF ans.kind = "notok"
     THEN /\ sc' = [sc EXCEPT !.pc = "done"]
          /\ net' = Settle(net, NoId, "leads")
          /\ scanRes' = ScanFailure(ans.status)
     ELSE Continue([sc EXCEPT
                      !.total = Len(NormaliseLeads(ans.payload)),
                      !.toScan = Take(NormaliseLeads(ans.payload),
                                      ClampSample(sc.sample, SampleMax(sc.endpoint),
                                                  SampleDefault(sc.endpoint))),
                      !.i = 1],
                   Settle(net, NoId, "leads"))

\* resultdata_ids_preview: source A settles
IdsSettlesA(ans) ==
  /\ sc.endpoint = "ids" /\ sc.pc = "A"
  /\ LET s1 == IdsListSource(sc, ans, "A", "leads/{id}/results")
     IN  IF IdsNextSource(s1) THEN Goto(s1, "B") ELSE Pace(IdsAggregate(s1))

\* resultdata_ids_preview: source B settles
IdsSettlesB(ans) ==
  /\ sc.endpoint = "ids" /\ sc.pc = "B"
  /\ LET s1 == IdsListSource(sc, ans, "B", "results?leadId")
     IN  IF IdsNextSource(s1) THEN Goto(s1, "C") ELSE Pace(IdsAggregate(s1))

\* resultdata_ids_preview: expand=results settles
IdsSettlesC(ans) ==
  /\ sc.endpoint = "ids" /\ sc.pc = "C"
  /\ IF ans.kind # "ok" THEN Goto(sc, "Cinc")
     ELSE Pace(IdsAggregate(IdsExpandSource(sc, ans)))

\* resultdata_ids_preview: include=results settles
IdsSettlesCinc(ans) ==
  /\ sc.endpoint = "ids" /\ sc.pc = "Cinc"
  /\ Pace(IdsAggregate(IdsExpandSource(sc, ans)))

\* inspect_resultfields_deep: expand=resultFields settles
DeepSettlesA(ans) ==
  /\ sc.endpoint = "deep" /\ sc.pc = "A"
  /\ IF ans.kind # "ok" THEN Goto(sc, "Ainc")
     ELSE Goto(DeepSourceA(sc, ans), "B")

\* include=resultFields settles, its rejection reaching the handler's catch
DeepSettlesAincNoCatch(ans) ==
  /\ sc.endpoint = "deep" /\ sc.pc = "Ainc"
  /\ IF ans.kind = "throw"
     THEN /\ sc' = [sc EXCEPT !.pc = "done"]
          /\ net' = Settle(net, sc.leadId, Url(sc.endpoint, sc.pc))
          /\ scanRes' = ScanFailure(500)
     ELSE Goto(DeepSourceA(sc, ans), "B")

\* inspect_resultfields_deep: include=resultFields settles
DeepSettlesAinc(ans) ==
  /\ sc.endpoint = "deep" /\ sc.pc = "Ainc"
  /\ Goto(DeepSourceA(sc, ans), "B")

\* inspect_resultfields_deep: expand=results settles
DeepSettlesB(ans) ==
  /\ sc.endpoint = "deep" /\ sc.pc = "B"
  /\ Pace(DeepSourceB(sc, ans))

\* the earlier inspect_resultfields_deep: p1 settles
OldSettlesA(ans) ==
  /\ sc.endpoint = "deepOld" /\ sc.pc = "A"
  /\ LET s1 == OldListSource(sc, ans, "leads/{id}/results")
     IN  IF s1.cand = <<>> THEN Goto(s1, "B") ELSE Pace(OldCollect(s1))

\* the earlier inspect_resultfields_deep: p2 settles
OldSettlesB(ans) ==
  /\ sc.endpoint = "deepOld" /\ sc.pc = "B"
  /\ LET s1 == OldListSource(sc, ans, "results?leadId")
     IN  IF s1.cand = <<>> THEN Goto(s1, "C") ELSE Pace(OldCollect(s1))

\* the earlier inspect_resultfields_deep: p3 settles
OldSettlesC(ans) ==
  /\ sc.endpoint = "deepOld" /\ sc.pc = "C"
  /\ IF ans.kind # "ok" THEN Goto(sc, "Cinc")
     ELSE Pace(OldCollect(OldExpandSource(sc, ans, "leads/{id}?expand=results")))

\* the earlier inspect_resultfields_deep: p3b settles
OldSettlesCinc(ans) ==
  /\ sc.endpoint = "deepOld" /\ sc.pc = "Cinc"
  /\ Pace(OldCollect(OldExpandSource(sc, ans, "leads/{id}?include=results")))

\* the delay after a lead is skipped
DelayNotAwaited ==
  /\ sc.pc \in {"A", "Ainc", "B", "C", "Cinc", "delay"}
  /\ Continue([sc EXCEPT !.i = @ + 1], [net EXCEPT !.timer = 0])

\* the timer of the delay fires: the loop goes on with the next lead
DelayElapsed ==
  /\ sc.pc = "delay"
  /\ Continue([sc EXCEPT !.i = @ + 1],
              [net EXCEPT !.timer = 0, !.elapsed = @ + 1])

\* the values of the sample parameter (0: missing)
Samples == {0, 1}

\* The answers the model draws from: every answer for the first lead that is
\* scanned (no delay has elapsed yet), a few for the leads after it.
ListAnswersNow ==
  IF net.elapsed = 0 THEN ListAnswers
  ELSE {a \in ListAnswers : a.kind = "throw" \/ a.body = ArrayBody(<<1>>)}
ExpandAnswersNow ==
  IF net.elapsed = 0 THEN ExpandAnswers
  ELSE {a \in ExpandAnswers :
          a.kind = "ok" /\ a.body = [ExpandBody EXCEPT !.results = ArrayBody(<<1>>)]}

NextScan ==
  \/ \E c \in FewCredentials, e \in Endpoints, rs \in BOOLEAN, n \in Samples :
        /\ (e # "ids" => rs)
        /\ ScanRequest(c[1], c[2], c[3], e, rs, n) /\ UNCHANGED ScanFrame
  \/ \E ans \in LeadAnswers : ListSettles(ans) /\ UNCHANGED ScanFrame
  \/ \E ans \in ListAnswersNow : IdsSettlesA(ans) /\ UNCHANGED ScanFrame
  \/ \E ans \in ListAnswersNow : IdsSettlesB(ans) /\ UNCHANGED ScanFrame
  \/ \E ans \in ExpandAnswersNow : IdsSettlesC(ans) /\ UNCHANGED ScanFrame
  \/ \E ans \in ExpandAnswersNow : IdsSettlesCinc(ans) /\ UNCHANGED ScanFrame
  \/ \E ans \in ExpandAnswersNow : DeepSettlesA(ans) /\ UNCHANGED ScanFrame
  \/ \E ans \in ExpandAnswersNow : DeepSettlesAinc(ans) /\ UNCHANGED ScanFrame
  \/ \E ans \in ExpandAnswersNow : DeepSettlesB(ans) /\ UNCHANGED ScanFrame
  \/ \E ans \in ListAnswersNow : OldSettlesA(ans) /\ UNCHANGED ScanFrame
  \/ \E ans \in ListAnswersNow : OldSettlesB(ans) /\ UNCHANGED ScanFrame
  \/ \E ans \in ExpandAnswersNow : OldSettlesC(ans) /\ UNCHANGED ScanFrame
  \/ \E ans \in ExpandAnswersNow : OldSettlesCinc(ans) /\ UNCHANGED ScanFrame
  \/ DelayElapsed /\ UNCHANGED ScanFrame

\* one scan request at a time, on a server with the secret configured
InitScan ==
  /\ WebInit
  /\ envSecret = GoodSecret
  /\ ~pgPool
  /\ ScanInit
  /\ EnrichInit
  /\ FetchInit
  /\ LeadsInit
  /\ NonpiiInit
  /\ ConcInit
  /\ HyInit
  /\ FoInit

SpecScan == InitScan /\ [][NextScan]_vars

\* One scan request with its timers: a delay that was started elapses.  A
\* fetch in flight is either waiting for the headers or reading the body;
\* only the first is bounded by the timeout of adversusGet, so nothing makes
\* a fetch settle.
SpecScanTimed ==
  /\ InitScan
  /\ [][NextScan]_vars
  /\ WF_vars(DelayElapsed /\ UNCHANGED ScanFrame)


NextEnrich ==
  \/ \E c \in FewCredentials, l \in Limits :
       EnrichedRequest(c[1], c[2], c[3], l) /\ UNCHANGED EnrichFrame
  \/ \E ans \in EnrichAnswers :
       EnrichedListSettles(ans) /\ UNCHANGED EnrichFrame
  \/ \E id \in en.inflight, o \in ContactOutcomes :
       ContactSettles(id, o) /\ UNCHANGED EnrichFrame

\* one join request, on a server with the secret configured
InitEnrich ==
  /\ WebInit
  /\ envSecret = GoodSecret
  /\ ~pgPool
  /\ ScanInit
  /\ EnrichInit
  /\ FetchInit
  /\ LeadsInit
  /\ NonpiiInit
  /\ ConcInit
  /\ HyInit
  /\ FoInit

SpecEnrich == InitEnrich /\ [][NextEnrich]_vars

NextFetch ==
  \/ \E c \in CallIds, ms \in Timeouts : AdversusGetCall(c, ms) /\ UNCHANGED FetchFrame
  \/ \E c \in CallIds : HeadersArrive(c) /\ UNCHANGED FetchFrame
  \/ \E c \in CallIds : FetchRejects(c) /\ UNCHANGED FetchFrame
  \/ \E c \in CallIds : TimeoutFires(c) /\ UNCHANGED FetchFrame
  \/ \E c \in CallIds : JsonRead(c) /\ UNCHANGED FetchFrame
  \/ \E c \in CallIds : JsonRejects(c) /\ UNCHANGED FetchFrame
  \/ \E c \in CallIds, o \in {"ok", "unusable"} : TextSettles(c, o) /\ UNCHANGED FetchFrame

\* The calls of adversusGet on their own.  A timer that is set fires; when
\* the upstream answers, and whether it ever does, is up to the upstream.
SpecFetch ==
  /\ InitScan
  /\ [][NextFetch]_vars
  /\ \A c \in CallIds : WF_vars(TimeoutFires(c) /\ UNCHANGED FetchFrame)

NextLeads ==
  \/ \E c \in FewCredentials, l \in LimitQueries :
       LeadsRequest(c[1], c[2], c[3], l) /\ UNCHANGED LeadsFrame
  \/ \E ans \in RowAnswers : LeadsSettles(ans) /\ UNCHANGED LeadsFrame

\* one request of the leads list, on a server with the secret configured
SpecLeads == InitEnrich /\ [][NextLeads]_vars

NextNonpii ==
  \/ \E c \in FewCredentials : NonpiiRequest(c[1], c[2], c[3]) /\ UNCHANGED NonpiiFrame
  \/ \E ans \in NonpiiAnswers : NonpiiSettles(ans) /\ UNCHANGED NonpiiFrame

\* one request of the field inventory, on a server with the secret configured
SpecNonpii == InitEnrich /\ [][NextNonpii]_vars

\* one request of one of the inventories (ids preview, deep, earlier deep or
\* non-PII), on a server with the secret configured
NextSummaries ==
  \/ np.pc = "idle" /\ NextScan
  \/ sc.pc = "idle" /\ NextNonpii

SpecSummaries == InitScan /\ [][NextSummaries]_vars

\* ------------------------------------------------------------------------
\* src/index.js 627-780 and 783-976: two scan requests at once
\* ------------------------------------------------------------------------

\* the tables every request would write to if they were the server's
ScopeShared(r) == 1

\* const seen = {}; const tryLog = [] / const perLead = []; const diag = []
\* are made inside the handler: the tables request r reads and writes are
\* its own
Scope(r) == r

\* the locals of the handler of request r as its code finds them
Merged(r) ==
  [rq[r].s EXCEPT !.seen = rq[Scope(r)].s.seen, !.tryLog = rq[Scope(r)].s.tryLog,
                  !.diag = rq[Scope(r)].s.diag, !.perLead = rq[Scope(r)].s.perLead]

\* the locals of request r become s1
Stored(r, s1) ==
  [[rq EXCEPT ![r].s = s1]
     EXCEPT ![Scope(r)].s.seen = s1.seen, ![Scope(r)].s.tryLog = s1.tryLog,
            ![Scope(r)].s.diag = s1.diag, ![Scope(r)].s.perLead = s1.perLead]

\* the per-lead code from the fetch awaited at s.pc to the next await, for
\* the answer ans of that fetch
ScanStep(s, ans) ==
  IF s.endpoint = "ids"
  THEN CASE s.pc = "A" ->
              LET s1 == IdsListSource(s, ans, "A", "leads/{id}/results")
              IN  IF IdsNextSource(s1) THEN [s1 EXCEPT !.pc = "B"]
                  ELSE [IdsAggregate(s1) EXCEPT !.pc = "delay"]
         [] s.pc = "B" ->
              LET s1 == IdsListSource(s, ans, "B", "results?leadId")
              IN  IF IdsNextSource(s1) THEN [s1 EXCEPT !.pc = "C"]
                  ELSE [IdsAggregate(s1) EXCEPT !.pc = "delay"]
         [] s.pc = "C" ->
              IF ans.kind # "ok" THEN [s EXCEPT !.pc = "Cinc"]
              ELSE [IdsAggregate(IdsExpandSource(s, ans)) EXCEPT !.pc = "delay"]
         [] OTHER -> [IdsAggregate(IdsExpandSource(s, ans)) EXCEPT !.pc = "delay"]
  ELSE CASE s.pc = "A" ->
              IF ans.kind # "ok" THEN [s EXCEPT !.pc = "Ainc"]
              ELSE [DeepSourceA(s, ans) EXCEPT !.pc = "B"]
         [] s.pc = "Ainc" -> [DeepSourceA(s, ans) EXCEPT !.pc = "B"]
         [] OTHER -> [DeepSourceB(s, ans) EXCEPT !.pc = "delay"]

\* the answers the two requests get
ConcListAnswers ==
  {a \in ListAnswers : a.kind = "throw" \/ a.body \in {ArrayBody(<<>>), ArrayBody(<<1>>)}}
ConcExpandAnswers ==
  {a \in ExpandAnswers :
     \/ a.kind = "throw"
     \/ a.kind = "ok" /\ a.body \in
          {[ExpandBody EXCEPT !.results = ArrayBody(<<1>>)],
           [ExpandBody EXCEPT !.results = ArrayBody(<<>>),
              !.resultFields = ArrayOf(<<Labelled("", "Alder", "41")>>)]}}

\* the answers that can settle the fetch awaited at s.pc
AnswersAt(s) ==
  IF s.endpoint = "ids" /\ s.pc \in {"A", "B"} THEN ConcListAnswers
  ELSE ConcExpandAnswers

\* another request is between its first await and its answer
OtherUnderWay(r) ==
  \E o \in Requests \ {r} : rq[o].s.pc \notin {"idle", "done"}

\* the handler of request r after the list fetch has resolved to one lead
Started(r, endpoint) ==
  [ScanIdle EXCEPT !.endpoint = endpoint, !.total = 1,
                   !.toScan = <<Lead(r, NoId)>>, !.i = 1, !.leadId = r, !.pc = "A"]

\* request r arrives and awaits the list fetch
ConcRequest(r, endpoint) ==
  /\ rq[r].s.pc = "idle"
  /\ rq' = [rq EXCEPT ![r].s = [ScanIdle EXCEPT !.endpoint = endpoint, !.pc = "list"],
                      ![r].overlap = OtherUnderWay(r)]
  /\ UNCHANGED rqRes

\* the list fetch of request r settles with its one lead; the tables are
\* made and the first fetch for the lead is awaited
ConcListSettles(r) ==
  /\ rq[r].s.pc = "list"
  /\ rq' = [Stored(r, [Started(r, rq[r].s.endpoint) EXCEPT
                         !.seen = Merged(r).seen, !.tryLog = Merged(r).tryLog,
                         !.diag = Merged(r).diag, !.perLead = Merged(r).perLead])
              EXCEPT ![r].overlap = @ \/ OtherUnderWay(r)]
  /\ UNCHANGED rqRes

\* a fetch for the lead of request r settles with ans
ConcSettles(r, ans) ==
  /\ rq[r].s.pc \in {"A", "Ainc", "B", "C", "Cinc"}
  /\ ans \in AnswersAt(rq[r].s)
  /\ rq' = [Stored(r, ScanStep(Merged(r), ans))
              EXCEPT ![r].answers = Append(@, ans),
                     ![r].overlap = @ \/ OtherUnderWay(r)]
  /\ UNCHANGED rqRes

\* the delay after the lead of request r has elapsed: the answer is sent
ConcDelayElapsed(r) ==
  /\ rq[r].s.pc = "delay"
  /\ rq' = [rq EXCEPT ![r].s.pc = "done", ![r].overlap = @ \/ OtherUnderWay(r)]
  /\ rqRes' = [rqRes EXCEPT ![r] = ScanResponse(Merged(r))]

NextConc ==
  \/ \E r \in Requests, e \in {"ids", "deep"} : ConcRequest(r, e) /\ UNCHANGED ConcFrame
  \/ \E r \in Requests : ConcListSettles(r) /\ UNCHANGED ConcFrame
  \/ \E r \in Requests, ans \in ConcListAnswers \cup ConcExpandAnswers :
       ConcSettles(r, ans) /\ UNCHANGED ConcFrame
  \/ \E r \in Requests : ConcDelayElapsed(r) /\ UNCHANGED ConcFrame

\* two scan requests with the secret, in any interleaving of their awaits
SpecConc == InitEnrich /\ [][NextConc]_vars

\* one request, sent to servers that differ in the configured secret only
NextSecrets ==
  \E route \in HyRoutes, c \in HyCredentials :
    RequestToEach(route, c[1], c[2], c[3]) /\ UNCHANGED <<HyFrame>>

SpecSecrets == InitEnrich /\ [][NextSecrets]_vars

NextObjects ==
  \E obj \in DataObjects : FromDataObjectCall(obj) /\ UNCHANGED <<FoFrame>>

SpecObjects == InitEnrich /\ [][NextObjects]_vars

\* ------------------------------------------------------------------------
\* The webhook, the debug buffer and the secret check: properties
\* ------------------------------------------------------------------------

\* a request carries the configured secret in one of its three places
ValidSecret(c) ==
  /\ envSecret # ""
  /\ \E j \in 1..3 : c[j] = envSecret

\* C1: every POST /webhook/adversus with a valid secret puts its event at
\* index 0 of the buffer, stamped with receivedAt, and is answered 200
\* {ok:true} (at once without a pool, when the INSERT settles with one); a
\* debug-events read with a valid secret shows at index 0 the event of the
\* webhook accepted last.
C1_WebhookThenDebugRead ==
  [][ /\ \A c \in Credentials, i \in DOMAIN Payloads :
           (ValidSecret(c) /\ WebhookAdversus(c[1], c[2], c[3], Payloads[i]))
             => /\ Len(lastEvents') >= 1
                /\ lastEvents'[1].receivedAt = seq + 1
                /\ lastEvents'[1].payload = Payloads[i]
                /\ IF pgPool
                   THEN (seq + 1) \in pending'
                   ELSE res'.route = "webhook" /\ res'.status = 200 /\ res'.ok
                          /\ res'.stamp = seq + 1
      /\ \A s \in pending, o \in InsertOutcomes :
           InsertSettles(s, o)
             => res'.route = "webhook" /\ res'.status = 200 /\ res'.ok
                  /\ res'.stamp = s
      /\ \A c \in Credentials :
           (ValidSecret(c) /\ seq > 0 /\ DebugEvents(c[1], c[2], c[3]))
             => /\ res'.status = 200
                /\ Len(res'.body) >= 1
                /\ res'.body[1].receivedAt = seq
                /\ res'.body[1].payload = lastPosted
    ]_vars

\* a debug read taken right after a webhook, once the buffer has overflowed
C1_Witness ==
  /\ res.route = "debug" /\ res.status = 200
  /\ seq > MAX_EVENTS
  /\ Len(res.body) = DEBUG_SLICE
  /\ res.body[1].receivedAt = seq
  /\ res.body[1].payload = lastPosted

\* the request is answered 401 and nothing else happens
Rejected ==
  /\ res'.status = 401 /\ ~res'.ok
  /\ UNCHANGED <<lastEvents, seq, pending, dbAttempts, upstream>>

\* C2: a request to a protected route whose secret is missing or differs
\* from the configured one is answered 401 with ok:false and its handler
\* does not run: the buffer is unchanged, no INSERT is attempted and no
\* upstream fetch is issued.
C2_InvalidSecretRejected ==
  [][ \A c \in Credentials :
        ~ValidSecret(c)
          => /\ \A i \in DOMAIN Payloads :
                  WebhookAdversus(c[1], c[2], c[3], Payloads[i]) => Rejected
             /\ DebugEvents(c[1], c[2], c[3]) => Rejected
             /\ CampaignsRequest(c[1], c[2], c[3]) => Rejected
    ]_vars

\* a 401 sent while an event is buffered and a handler is suspended
C2_Witness ==
  /\ res.status = 401 /\ res.route = "webhook"
  /\ Len(lastEvents) > 0
  /\ pending # {}
  /\ dbAttempts = seq

\* C3: the debug buffer never holds more than MAX_EVENTS entries, whatever
\* the number of webhooks and however the suspended handlers interleave.
C3_BufferBounded == Len(lastEvents) <= MAX_EVENTS

\* the buffer is full after an eviction, with two handlers suspended
C3_Witness ==
  /\ seq > MAX_EVENTS
  /\ Len(lastEvents) = MAX_EVENTS
  /\ Cardinality(pending) >= 2

InBuffer(stamp) == \E i \in DOMAIN lastEvents : lastEvents[i].receivedAt = stamp

\* C4: a rejected INSERT is swallowed: the webhook is still answered 200
\* {ok:true}, the buffer is left as it is, and the event is still in it
\* (fewer than MAX_EVENTS newer events having arrived).
C4_InsertFailureSwallowed ==
  [][ \A s \in pending :
        InsertSettles(s, "rejected")
          => /\ res'.route = "webhook" /\ res'.status = 200 /\ res'.ok
             /\ res'.stamp = s
             /\ lastEvents' = lastEvents
             /\ (seq - s < MAX_EVENTS =>
                   \E i \in DOMAIN lastEvents' : lastEvents'[i].receivedAt = s)
    ]_vars

\* a failed INSERT answered 200 after a newer webhook has arrived
C4_Witness ==
  /\ res.route = "webhook" /\ res.status = 200 /\ res.ok
  /\ res.logged = "DB insert failed"
  /\ seq > res.stamp
  /\ InBuffer(res.stamp)

\* ------------------------------------------------------------------------
\* The scans: properties
\* ------------------------------------------------------------------------

\* the sources of resultdata_ids_preview in the order A, B, C, as d.tried
\* names them
IdsSources ==
  <<"leads/{id}/results", "results?leadId", "leads/{id}?expand/include=results">>

\* the values of hit.source that name source A, B, C
SourceLabels(letter) ==
  {letter \o x : x \in {".resultData", ".data.resultData", ".fields",
                        ".resultFields", ".data.fields", ".lead.resultData"}}
IdsLabels == <<SourceLabels("A"), SourceLabels("B"), SourceLabels("C")>>

\* the source a fetched url belongs to: its position in the per-lead order
SourceOfUrl(endpoint, url) ==
  IF endpoint = "deep"
  THEN IF url = "leads/{id}?expand=results" THEN 2 ELSE 1
  ELSE CASE url = "leads/{id}/results" -> 1
         [] url = "results?leadId" -> 2
         [] OTHER -> 3

\* the sources fetched so far for lead L
SourcesFetched(L) ==
  {SourceOfUrl(sc.endpoint, net.log[j].url) : j \in {m \in DOMAIN net.log : net.log[m].lead = L}}

\* the leads a fetch was started for
LeadsFetched == {net.log[j].lead : j \in DOMAIN net.log} \ {NoId}

TriedEndpoints(t) == [m \in DOMAIN t |-> t[m].endpoint]

\* C5: in resultdata_ids_preview the sources of a lead are tried in the
\* order A, B, C; B is awaited only when A has left no hit and C only when A
\* and B have left none; for every lead that is done the tried list names the
\* sources up to the first one with hits and no later one, those are the
\* sources that were fetched, and every hit of the lead is from the last of
\* them.
C5_IdsSourceOrder ==
  sc.endpoint = "ids" =>
    /\ sc.pc = "B" => sc.hits = <<>> /\ TriedEndpoints(sc.tried) = SubSeq(IdsSources, 1, 1)
    /\ sc.pc \in {"C", "Cinc"} =>
         sc.hits = <<>> /\ TriedEndpoints(sc.tried) = SubSeq(IdsSources, 1, 2)
    /\ Len(sc.diag) = Len(sc.perLead)
    /\ \A j \in DOMAIN sc.diag :
         LET t == sc.diag[j].tried
             hits == sc.perLead[j].ids
         IN  /\ Len(t) \in 1..3
             /\ TriedEndpoints(t) = SubSeq(IdsSources, 1, Len(t))
             /\ SourcesFetched(sc.diag[j].leadId) = 1..Len(t)
             /\ \A m \in DOMAIN hits : hits[m].source \in IdsLabels[Len(t)]
             /\ Len(t) < 3 => hits # <<>>

\* C5 witness: a lead is done whose source A left no hit and whose source B
\* left hits, so that C was not tried
C5_Witness ==
  /\ sc.endpoint = "ids"
  /\ \E j \in DOMAIN sc.diag :
       /\ Len(sc.diag[j].tried) = 2
       /\ ~sc.diag[j].tried[1].error
       /\ sc.perLead[j].ids # <<>>
       /\ 3 \notin SourcesFetched(sc.diag[j].leadId)

\* C6: in inspect_resultfields_deep, once the first source has yielded a
\* tuple for the lead, the second source (leads/{id}?expand=results) is not
\* fetched for that lead and leaves no diag entry for it.
C6_DeepStopsAfterFirstSource ==
  (sc.endpoint = "deep" /\ sc.pc \in {"B", "delay"} /\ sc.hits # <<>>) =>
    /\ 2 \notin SourcesFetched(sc.leadId)
    /\ \A j \in DOMAIN sc.tryLog :
         sc.tryLog[j].id = sc.leadId => sc.tryLog[j].endpoint # "leads/{id}?expand=results"

\* the diag entries of lead L
DiagEntries(L) ==
  IF sc.endpoint = "ids"
  THEN IF \E j \in DOMAIN sc.diag : sc.diag[j].leadId = L
       THEN (sc.diag[CHOOSE j \in DOMAIN sc.diag : sc.diag[j].leadId = L]).tried
       ELSE <<>>
  ELSE LET OfLead(e) == e.id = L IN SelectSeq(sc.tryLog, OfLead)

\* an entry records a success
EntrySucceeded(e) == IF sc.endpoint = "ids" THEN ~e.error ELSE e.got

\* C7: in each of the three scans, when a lead is done every source that was
\* fetched for it has left exactly one diag entry, whatever the outcome of the
\* fetch, and an entry that records a success carries the item count.
C7_EveryTriedSourceLogged ==
  sc.pc \in {"delay", "done"} =>
    \A L \in LeadsFetched :
      /\ Len(DiagEntries(L)) = Cardinality(SourcesFetched(L))
      /\ \A j \in DOMAIN DiagEntries(L) :
           EntrySucceeded(DiagEntries(L)[j]) => DiagEntries(L)[j].count # NoId

\* C8: within one scan at most one lead has fetches in flight, and it is the
\* lead the loop is at; while the delay after a lead runs no fetch is in
\* flight, and the delay is the scan's 250, 700 or 900 ms; fetches have been
\* started for at most one lead more than delays have elapsed.
C8_LeadsSequential ==
  /\ \A f \in net.inflight :
       /\ \A g \in net.inflight : g.lead = f.lead
       /\ f.lead # NoId => f.lead = sc.leadId /\ sc.pc \in {"A", "Ainc", "B", "C", "Cinc"}
  /\ net.timer # 0 =>
       /\ net.inflight = {}
       /\ sc.pc = "delay"
       /\ net.timer = (CASE sc.endpoint = "ids" -> 250
                         [] sc.endpoint = "deep" -> 700
                         [] OTHER -> 900)
  /\ sc.pc = "delay" => net.timer # 0
  /\ Cardinality(LeadsFetched) <= net.elapsed + 1

\* C8 witness: a fetch for the second lead is in flight, after the delay
\* that followed the first lead
C8_Witness ==
  /\ Cardinality(LeadsFetched) = 2
  /\ net.elapsed = 1
  /\ \E f \in net.inflight : f.lead = sc.leadId

\* C9 as stated: with the filter on, every hit of a lead comes from a result
\* object that passes isSuccessResult, and the count of a diag entry is the
\* number of result objects of the source, passing or not.
C9_EveryHitFromSuccessResult ==
  (sc.endpoint = "ids" /\ sc.requireSuccess) =>
    /\ \A j \in DOMAIN sc.perLead : \A m \in DOMAIN sc.perLead[j].ids :
         LET h == sc.perLead[j].ids[m]
         IN  /\ h.origin \in DOMAIN ResultObjects
             /\ isSuccessResult(ResultObjects[h.origin], TRUE)
    /\ \A j \in DOMAIN sc.diag : \A m \in DOMAIN sc.diag[j].tried :
         LET t == sc.diag[j].tried[m]
         IN  ~t.error => t.count = Len(t.items)

\* C9 amended: with the filter on, every hit read from a result object (of
\* source A, B or of the results arrays of source C) comes from one that
\* passes isSuccessResult; the only other hits are those source C reads from
\* the resultData of the lead itself, which no filter guards; the count of a
\* diag entry is the number of result objects of the source, passing or not.
C9_ResultHitsFromSuccessResults ==
  (sc.endpoint = "ids" /\ sc.requireSuccess) =>
    /\ \A j \in DOMAIN sc.perLead : \A m \in DOMAIN sc.perLead[j].ids :
         LET h == sc.perLead[j].ids[m]
         IN  IF h.source = "C.lead.resultData"
             THEN h.origin = 0 /\ Len(sc.diag[j].tried) = 3
             ELSE /\ h.origin \in DOMAIN ResultObjects
                  /\ isSuccessResult(ResultObjects[h.origin], TRUE)
                  /\ \E n \in DOMAIN sc.diag[j].tried[Len(sc.diag[j].tried)].items :
                       sc.diag[j].tried[Len(sc.diag[j].tried)].items[n] = h.origin
    /\ \A j \in DOMAIN sc.diag : \A m \in DOMAIN sc.diag[j].tried :
         LET t == sc.diag[j].tried[m]
         IN  ~t.error => t.count = Len(t.items)

\* C9 witness: with the filter on, a lead is done whose last source counted a
\* result object that fails the filter next to one that passes, and every hit
\* of the lead is from the passing one
C9_Witness ==
  /\ sc.endpoint = "ids" /\ sc.requireSuccess
  /\ \E j \in DOMAIN sc.diag :
       LET t == sc.diag[j].tried[Len(sc.diag[j].tried)]
       IN  /\ ~t.error /\ t.count = 2
           /\ \E n \in DOMAIN t.items : ~isSuccessResult(ResultObjects[t.items[n]], TRUE)
           /\ sc.perLead[j].ids # <<>>
           /\ \A m \in DOMAIN sc.perLead[j].ids :
                /\ sc.perLead[j].ids[m].origin # 0
                /\ isSuccessResult(ResultObjects[sc.perLead[j].ids[m].origin], TRUE)

\* ------------------------------------------------------------------------
\* The enriched join: properties
\* ------------------------------------------------------------------------

\* the batch a contact fetch was started in
BatchOf(id) == (en.log[CHOOSE j \in DOMAIN en.log : en.log[j].id = id]).batch

\* C10: the contact fetches of the join are started in batches of at most
\* BATCH: at most BATCH are in flight, all fetches in flight are of the batch
\* started last, so that no batch starts before the one before it has
\* settled whole, and each batch holds at most BATCH fetches.
C10_BatchesOfFive ==
  /\ Cardinality(en.inflight) <= BATCH
  /\ \A id \in en.inflight : BatchOf(id) = en.batch
  /\ \A j \in DOMAIN en.log : en.log[j].batch \in 1..en.batch
  /\ \A b \in 1..en.batch :
       Cardinality({j \in DOMAIN en.log : en.log[j].batch = b}) <= BATCH

\* C10 witness: the second batch is in flight after a first batch of BATCH
\* fetches
C10_Witness ==
  /\ en.batch = 2
  /\ en.inflight # {}
  /\ Cardinality({j \in DOMAIN en.log : en.log[j].batch = 1}) = BATCH

\* C11 as stated: a contact fetch that fails (non-ok status, network error
\* or timeout abort) does not abort the join: the handler does not end in its
\* catch, no 500 is sent, and the answer is ok:true with every lead present.
C11_ContactFailureYieldsNull ==
  (\E o \in en.outcomes : o.outcome # "ok") =>
    /\ en.pc # "failed"
    /\ enRes.status # 500
    /\ en.pc = "done" => enRes.ok /\ Len(enRes.data) = Len(en.items)

\* the contact a lead with contact id cid must carry, from what the fetches
\* came to
ExpectedContact(cid) ==
  IF cid = NoId \/ cid = 0 THEN NoContact
  ELSE IF [id |-> cid, outcome |-> "ok"] \in en.outcomes THEN ContactBody(cid)
  ELSE NoContact

\* the leads of the answered list, after ?limit=
LimitedLeads ==
  LET all == NormaliseLeads(en.payload)
  IN  IF en.limit # 0 /\ Len(all) > en.limit THEN [j \in 1..en.limit |-> all[j]] ELSE all

\* C12: an ok:true answer of the join holds one record per lead of the list
\* after the limit, in the same order, each the lead with a contact member:
\* the contact fetched for its contactId (so leads sharing a contactId carry
\* the same one), null when that fetch yielded nothing, null without
\* contactId.
C12_JoinOutput ==
  (en.pc = "done" /\ enRes.ok) =>
    /\ Len(enRes.data) = Len(LimitedLeads)
    /\ enRes.returned = Len(LimitedLeads)
    /\ \A j \in DOMAIN enRes.data :
         /\ enRes.data[j].id = LimitedLeads[j].id
         /\ enRes.data[j].contactId = LimitedLeads[j].contactId
         /\ enRes.data[j].contact = ExpectedContact(LimitedLeads[j].contactId)

\* C12 witness: an ok:true answer in which two leads share a fetched
\* contact, one lead's contact fetch was not ok, and one lead has no
\* contactId
C12_Witness ==
  /\ en.pc = "done" /\ enRes.ok
  /\ \E j, m \in DOMAIN enRes.data :
       /\ j # m
       /\ enRes.data[j].contactId = enRes.data[m].contactId
       /\ enRes.data[j].contact.present
       /\ enRes.data[m].contact = enRes.data[j].contact
  /\ \E j \in DOMAIN enRes.data :
       /\ [id |-> enRes.data[j].contactId, outcome |-> "notok"] \in en.outcomes
       /\ ~enRes.data[j].contact.present
  /\ \E j \in DOMAIN enRes.data :
       enRes.data[j].contactId = NoId /\ ~enRes.data[j].contact.present

\* ------------------------------------------------------------------------
\* adversusGet: properties
\* ------------------------------------------------------------------------

Pending(c) == calls[c].st \in {"fetching", "reading", "readingText"}
Settled(c) == calls[c].st \in {"resolved", "rejected"}

\* C13: every call of adversusGet settles in the end, also while the body
\* of the response is read after the headers have arrived.
C13_EveryCallSettles == \A c \in CallIds : Pending(c) ~> Settled(c)

\* ------------------------------------------------------------------------
\* GET /adversus/leads: properties
\* ------------------------------------------------------------------------

\* the leads endpoint has answered ok:true
LeadsAnswered == ld.pc = "done" /\ ldRes.ok

\* C14: with L the list resolved from the body and n the limit parameter, the
\* answer holds the first n records of L and truncated = true when n parses
\* as a positive integer and L is longer than n; otherwise it holds L and
\* truncated = false; returned is the length of the list answered.
C14_LimitTruncates ==
  LeadsAnswered =>
    LET n == LimitOf(ld.limitQ)
        L == ld.all
    IN  /\ IF n > 0 /\ Len(L) > n
           THEN ldRes.data = [j \in 1..n |-> L[j]] /\ ldRes.truncated
           ELSE ldRes.data = L /\ ~ldRes.truncated
        /\ ldRes.returned = Len(ldRes.data)
        /\ ldRes.returned = IF n > 0 THEN Min(n, Len(L)) ELSE Len(L)
        /\ ldRes.truncated <=> Len(ldRes.data) < Len(L)

\* a list of four records answered with limit 2: two records, truncated
C14_Witness ==
  /\ LeadsAnswered
  /\ ld.limitQ = "2"
  /\ Len(ld.all) = 4
  /\ Len(ldRes.data) = 2
  /\ ldRes.truncated

\* C15: total_count is the numeric total of the body, else its count, else
\* its totalCount, else the length of the record array before the limit was
\* applied, else the length of the list answered.
C15_TotalCountOrder ==
  LeadsAnswered =>
    ldRes.total_count =
      IF ld.payload.total # 0 THEN ld.payload.total
      ELSE IF ld.payload.count # 0 THEN ld.payload.count
      ELSE IF ld.payload.totalCount # 0 THEN ld.payload.totalCount
      ELSE IF Len(ld.all) # 0 THEN Len(ld.all)
      ELSE ldRes.returned

\* the members of an object body, by position, that hold an array
ArrayMembers(p) == {j \in DOMAIN p.members : p.members[j].isArray}

\* the positions in KnownKeys of the names under which the body holds an array
KnownPresent(p) ==
  {i \in DOMAIN KnownKeys :
     \E j \in ArrayMembers(p) : p.members[j].k = KnownKeys[i]}

Least(S) == CHOOSE x \in S : \A y \in S : x <= y

\* the array of an object body under a name
Under(p, name) ==
  (p.members[CHOOSE j \in ArrayMembers(p) : p.members[j].k = name]).items

\* the record list the envelope rules give for a body
RecordsOf(p) ==
  IF p.kind = "array" THEN p.items
  ELSE IF p.kind # "object" THEN <<>>
  ELSE IF KnownPresent(p) # {} /\ Under(p, KnownKeys[Least(KnownPresent(p))]) # <<>>
  THEN Under(p, KnownKeys[Least(KnownPresent(p))])
  ELSE IF ArrayMembers(p) # {} THEN p.members[Least(ArrayMembers(p))].items
  ELSE <<>>

NonpiiAnswered == np.pc = "done" /\ npRes.ok

\* the calls of hit for a key that carry a value: not null, not a blank string
Counted(key) ==
  {j \in DOMAIN np.hits :
     /\ np.hits[j].field = key
     /\ np.hits[j].val \notin {ABSENT, NULL, "", " ", "  "}}

\* the entries of the answer for a key
EntriesOf(key) == {j \in DOMAIN npRes.fields : npRes.fields[j].field = key}

\* C17: for each key, the answer has an entry exactly when some call of hit
\* for the key carried a value; its count is the number of such calls and its
\* example the value of the first of them.
C17_FirstWins ==
  NonpiiAnswered =>
    /\ \A j \in DOMAIN npRes.fields : Counted(npRes.fields[j].field) # {}
    /\ \A h \in DOMAIN np.hits :
         LET key == np.hits[h].field
         IN  Counted(key) # {} =>
               /\ Cardinality(EntriesOf(key)) = 1
               /\ \A j \in EntriesOf(key) :
                    /\ npRes.fields[j].count = Cardinality(Counted(key))
                    /\ npRes.fields[j].example = np.hits[Least(Counted(key))].val

\* status hit with "open" and then with "closed": example "open", count 2
C17_Witness ==
  /\ NonpiiAnswered
  /\ np.rows = <<StatusRow, ClosedRow>>
  /\ \E j \in DOMAIN npRes.fields :
       npRes.fields[j] = [field |-> "status", coverage_pct |-> 100,
                          count |-> 2, example |-> "open"]

\* the divisor of the coverage figures
TotalRows == IF npRes.total_rows = 0 THEN 1 ELSE npRes.total_rows

\* 100 * count / total is a whole number and a half
HalfWay(count, total) ==
  (200 * count) % total = 0 /\ ((200 * count) \div total) % 2 = 1

\* C18 as stated: every coverage_pct is count / max(total_rows, 1) * 100
\* rounded to the nearest integer, a half upwards.
C18_CoverageRoundHalfUp ==
  NonpiiAnswered =>
    \A j \in DOMAIN npRes.fields :
      npRes.fields[j].coverage_pct = RoundHalfUp(100 * npRes.fields[j].count, TotalRows)

\* C18: every coverage_pct is count / max(total_rows, 1) * 100 rounded to the
\* nearest integer; when that product is a whole number and a half it is
\* rounded up or, the product in doubles falling short of the half, down.
\* Two hits in four rows give 50; without rows there are no fields.
C18_CoverageRounded ==
  NonpiiAnswered =>
    /\ \A j \in DOMAIN npRes.fields :
         LET e == npRes.fields[j]
             exact == RoundHalfUp(100 * e.count, TotalRows)
         IN  /\ e.coverage_pct \in {exact - 1, exact}
             /\ ~HalfWay(e.count, TotalRows) => e.coverage_pct = exact
             /\ (npRes.total_rows = 4 /\ e.count = 2) => e.coverage_pct = 50
    /\ npRes.total_rows = 0 => npRes.fields = <<>>

\* 23 hits in 40 rows: 57.5 in exact arithmetic, answered as 57
C18_Witness ==
  /\ NonpiiAnswered
  /\ npRes.total_rows = 40
  /\ \E j \in DOMAIN npRes.fields :
       npRes.fields[j].count = 23 /\ npRes.fields[j].coverage_pct = 57

\* the keys that stand for the phone field
PhoneFields == {"phone", "resultData.phone", "masterData.phone"}

\* C19: over the ten records with phone directly on six and under resultData
\* on two others, the answer has a single phone entry, with count 8 and
\* coverage_pct 80.
C19_PhoneCountedOnce ==
  (NonpiiAnswered /\ np.rows = TenRows) =>
    /\ Cardinality({j \in DOMAIN npRes.fields :
                      npRes.fields[j].field \in PhoneFields}) = 1
    /\ \A j \in DOMAIN npRes.fields :
         npRes.fields[j].field \in PhoneFields =>
           npRes.fields[j].count = 8 /\ npRes.fields[j].coverage_pct = 80

\* ------------------------------------------------------------------------
\* The scans: a failing fetch for a lead
\* ------------------------------------------------------------------------

\* the list fetch of the scan was ok and the list is resolved: the loop over
\* the leads has been entered
ListResolved == sc.i >= 1

\* the leads of the sample that are not skipped
LeadsToScan ==
  {LeadIdOf(sc.toScan[j]) : j \in {m \in DOMAIN sc.toScan : ~Skipped(sc.toScan[m])}}

\* the second fetch of a source, made only when the first one threw, timed
\* out or was not ok
RetryUrls == {"leads/{id}?include=resultFields", "leads/{id}?include=results"}

\* a fetch for a lead has failed: it was retried, or its entry says so
SubFetchFailed ==
  \/ \E j \in DOMAIN net.log : net.log[j].url \in RetryUrls
  \/ sc.endpoint = "ids" /\ \E j \in DOMAIN sc.diag :
       \E m \in DOMAIN sc.diag[j].tried : sc.diag[j].tried[m].error

\* C20: once the lead list was fetched, no failure answer is sent whatever
\* the fetches for the leads come to: while the scan runs nothing is
\* answered, and the answer at its end is ok:true, after every lead of the
\* sample that has an id was fetched, with the fields gathered and the diag
\* trail.
C20_SubFetchFailureNeverFails ==
  ListResolved =>
    /\ sc.pc # "done" => scanRes.status \in {0, 401}
    /\ sc.pc = "done" =>
         /\ scanRes.ok /\ scanRes.status = 200
         /\ scanRes = ScanResponse(sc)
         /\ scanRes.scanned = Len(sc.toScan)
         /\ LeadsFetched = LeadsToScan
         /\ scanRes.diag = (IF sc.endpoint = "ids" THEN sc.diag ELSE sc.tryLog)
         /\ sc.endpoint \in {"ids", "deep"} =>
              \A L \in LeadsToScan : DiagEntries(L) # <<>>

\* a scan of two leads that ended ok:true after a fetch for the first lead
\* had failed
C20_Witness ==
  /\ ListResolved
  /\ sc.pc = "done"
  /\ scanRes.ok
  /\ SubFetchFailed
  /\ Cardinality(LeadsFetched) = 2
  /\ \E j \in DOMAIN net.log : net.log[j].lead = 1 /\ net.log[j].url \in RetryUrls

\* the upstream answered the list fetch with a status that is no success
UpstreamNotOk ==
  /\ ld.pc \in {"done", "failed"}
  /\ ~ld.up.net
  /\ ld.up.status \notin 200..299

\* C21: when the upstream answers the list fetch with a status that is no
\* success, the endpoint answers with that status and ok:false, carrying the
\* status and the upstream body, a text body cut to its first 2000
\* characters; nothing is normalised and no other fetch is made.
C21_UpstreamStatusSurfaced ==
  UpstreamNotOk =>
    /\ ldRes.status = ld.up.status /\ ~ldRes.ok
    /\ ldRes.upstream = ld.up.status
    /\ ldRes.error = "body"
    /\ ld.up.raw \in {"text", "jsonText"} => ldRes.errorLen = Min(ld.up.len, EXCERPT)
    /\ ld.all = <<>> /\ ldRes.data = <<>>
    /\ ld.fetches = 1

\* ------------------------------------------------------------------------
\* Two scan requests at once: properties
\* ------------------------------------------------------------------------

RECURSIVE AfterAnswers(_, _)
\* the locals of a handler that ran from s through the answers, on its own
AfterAnswers(s, answers) ==
  IF answers = <<>> THEN s
  ELSE AfterAnswers(ScanStep(s, answers[1]), Tail(answers))

\* the answer request r would send had it run alone on the answers it got
Alone(r) == ScanResponse(AfterAnswers(Started(r, rq[r].s.endpoint), rq[r].answers))

Nth(S, i) == CHOOSE j \in S : Cardinality({x \in S : x < j}) = i - 1

\* the members of the object whose value is an object that yields a tuple
Structured(obj) ==
  {j \in DOMAIN obj.items : StructuredTuple(obj.items[j]) # <<>>}

\* the members with an all-digit name and a value that is not blank
Numbered(obj) ==
  {j \in DOMAIN obj.items :
     /\ IsDigits(obj.items[j].k)
     /\ obj.items[j].kind # "null"
     /\ obj.items[j].kind = "scalar" => Trim(obj.items[j].value) # ""}

\* C23: fromDataObject is two-phase and exclusive: when a member that is an
\* object yields a tuple, exactly the tuples of such members are returned,
\* in order, and no bare all-digit member is; only when there is none are
\* the all-digit members with a non-blank value returned, as
\* {label: null, id: Number(key), value}
C23_TwoPhaseExclusive ==
  fo.pc = "done" =>
    LET items == fo.obj.items
        S == Structured(fo.obj)
        N == Numbered(fo.obj)
    IN  IF S # {}
        THEN /\ Len(fo.out) = Cardinality(S)
             /\ \A i \in DOMAIN fo.out :
                  fo.out[i] = StructuredTuple(items[Nth(S, i)])[1]
        ELSE /\ Len(fo.out) = Cardinality(N)
             /\ \A i \in DOMAIN fo.out :
                  /\ fo.out[i].label = NULL
                  /\ fo.out[i].id = NumberOf(items[Nth(N, i)].k)
                  /\ fo.out[i].value =
                       IF items[Nth(N, i)].kind = "scalar"
                       THEN items[Nth(N, i)].value ELSE "[object Object]"

\* an object with a structured member and a bare all-digit scalar was read
C23_Witness ==
  /\ fo.pc = "done"
  /\ Structured(fo.obj) # {}
  /\ \E j \in Numbered(fo.obj) : fo.obj.items[j].kind = "scalar"
  /\ Len(fo.out) = Cardinality(Structured(fo.obj))

\* ------------------------------------------------------------------------
\* the order of the summaries
\* ------------------------------------------------------------------------

\* the entries i and i+1 of xs, for every i
Adjacent(xs) == {i \in DOMAIN xs : i + 1 \in DOMAIN xs}

\* C24: the summaries are totally ordered: the non-PII inventory by
\* descending coverage_pct, the deep inventory and the ids preview by
\* descending count, ties by ascending field key (by ascending numeric id in
\* the ids preview); no two adjacent entries are out of order
C24_SummariesOrdered ==
  /\ npRes.ok =>
       \A i \in Adjacent(npRes.fields) :
         LET x == npRes.fields[i]
             y == npRes.fields[i + 1]
         IN  \/ x.coverage_pct > y.coverage_pct
             \/ /\ x.coverage_pct = y.coverage_pct
                /\ NonpiiFieldRank(x.field) < NonpiiFieldRank(y.field)
  /\ (scanRes.ok /\ "fields" \in DOMAIN scanRes) =>
       \A i \in Adjacent(scanRes.fields) :
         LET x == scanRes.fields[i]
             y == scanRes.fields[i + 1]
         IN  \/ x.count > y.count
             \/ /\ x.count = y.count
                /\ FieldRank(x.field) < FieldRank(y.field)
  /\ (scanRes.ok /\ "ids" \in DOMAIN scanRes) =>
       \A i \in Adjacent(scanRes.ids) :
         LET x == scanRes.ids[i]
             y == scanRes.ids[i + 1]
         IN  x.count > y.count \/ (x.count = y.count /\ x.id < y.id)

\* a non-PII inventory with a descent and a tie, the tie between two fields
\* that were first seen in the other order
C24_Witness ==
  /\ npRes.ok
  /\ \E i \in Adjacent(npRes.fields) :
       npRes.fields[i].coverage_pct > npRes.fields[i + 1].coverage_pct
  /\ \E i \in Adjacent(npRes.fields) :
       /\ npRes.fields[i].coverage_pct = npRes.fields[i + 1].coverage_pct
       /\ FieldIndex(SeenAfter(np.rows), npRes.fields[i].field)
            > FieldIndex(SeenAfter(np.rows), npRes.fields[i + 1].field)

\* ------------------------------------------------------------------------
\* the non-PII inventory: coverage as a fraction of the records
\* ------------------------------------------------------------------------

\* C25: in every answer of the non-PII inventory the count of a field is at
\* most total_rows and its coverage_pct at most 100: one record counts once
\* for a key, in however many of its containers the label occurs
C25_CoverageBounded ==
  NonpiiAnswered =>
    \A j \in DOMAIN npRes.fields :
      /\ npRes.fields[j].count <= npRes.total_rows
      /\ npRes.fields[j].coverage_pct <= 100

\* ------------------------------------------------------------------------
\* the debug buffer as a ring of the latest events
\* ------------------------------------------------------------------------

\* buf holds exactly the latest min(n, MAX_EVENTS) of n events, newest first
LatestOf(buf, n) ==
  /\ Len(buf) = Min(n, MAX_EVENTS)
  /\ \A i \in DOMAIN buf : buf[i].receivedAt = n - i + 1

\* C26: after n authorized webhooks the buffer holds exactly the latest
\* min(n, 200) events, newest at index 0, each eviction removing the oldest;
\* a debug-events read returns the first min(100, length) entries of it in
\* that order and leaves the buffer as it is
C26_RingOfLatest ==
  [][ /\ LatestOf(lastEvents', seq')
      /\ \A c \in Credentials :
           (ValidSecret(c) /\ DebugEvents(c[1], c[2], c[3]))
             => /\ Len(res'.body) = Min(DEBUG_SLICE, Len(lastEvents))
                /\ \A i \in DOMAIN res'.body : res'.body[i] = lastEvents[i]
                /\ lastEvents' = lastEvents
    ]_vars

\* a read of a full buffer from which the two oldest events were evicted
C26_Witness ==
  /\ res.route = "debug" /\ res.status = 200
  /\ seq = MAX_EVENTS + 2
  /\ lastEvents[MAX_EVENTS].receivedAt = 3
  /\ res.body[DEBUG_SLICE].receivedAt = seq - DEBUG_SLICE + 1
  /\ res.body[DEBUG_SLICE] = lastEvents[DEBUG_SLICE]

\* ------------------------------------------------------------------------
\* the webhook: buffer, INSERT, response
\* ------------------------------------------------------------------------

\* C27: an authorized webhook appends to the buffer, then hands the INSERT
\* to the pool, then answers; it is answered 200 exactly once, never before
\* its INSERT has settled, and it is answered in the end when the INSERT
\* settles
C27_WebhookStepsInOrder ==
  /\ [](\A s \in DOMAIN replies : replies[s] = IF s \in pending THEN 0 ELSE 1)
  /\ [][ /\ \A c \in Credentials, i \in DOMAIN Payloads :
              (ValidSecret(c) /\ WebhookAdversus(c[1], c[2], c[3], Payloads[i]))
                => /\ lastEvents'[1].receivedAt = seq + 1
                   /\ pgPool => /\ dbAttempts' = dbAttempts + 1
                                /\ (seq + 1) \in pending'
                                /\ replies'[seq + 1] = 0
         /\ \A s \in DOMAIN replies :
              replies'[s] # replies[s]
                => /\ s \in pending /\ s \notin pending'
                   /\ dbAttempts >= s
                   /\ res'.route = "webhook" /\ res'.status = 200 /\ res'.stamp = s
       ]_vars
  /\ \A s \in 1..MaxAuthWebhooks :
       (s \in pending) ~> (s \in DOMAIN replies /\ s \notin pending /\ replies[s] = 1)

\* the first webhook answered after its INSERT failed, the second one still
\* waiting for its own
C27_Witness ==
  /\ pgPool
  /\ replies = <<1, 0>>
  /\ pending = {2}
  /\ dbAttempts = 2
  /\ res.route = "webhook" /\ res.status = 200 /\ res.stamp = 1
  /\ res.logged = "DB insert failed"

\* ------------------------------------------------------------------------
\* no secret configured
\* ------------------------------------------------------------------------

\* C28: with ADVERSUS_WEBHOOK_SECRET unset no request to a protected route is
\* authorized, whatever it carries in the header or the query (nothing and
\* the empty string included): it is answered 401 and its handler does not
\* run
C28_EmptySecretRejectsAll ==
  [][ envSecret = "" =>
        /\ \A c \in Credentials :
             /\ \A i \in DOMAIN Payloads :
                  WebhookAdversus(c[1], c[2], c[3], Payloads[i]) => Rejected
             /\ DebugEvents(c[1], c[2], c[3]) => Rejected
             /\ CampaignsRequest(c[1], c[2], c[3]) => Rejected
        /\ \A v \in EarlierServers, c \in EarlierCredentials :
             EarlierDebugEvents(v, c[1], c[2], c[3]) => Rejected
    ]_vars

\* no secret configured: every route has answered 401 and nothing is stored
EmptySecretAnswers ==
  /\ envSecret = ""
  /\ res.status = 401
  /\ seq = 0 /\ lastEvents = <<>> /\ upstream = 0

\* the debug route of an earlier server answered 401 without a secret
C28_Witness == EmptySecretAnswers /\ res.route = "part_005"

\* ------------------------------------------------------------------------
\* what a request without the secret learns
\* ------------------------------------------------------------------------

\* the request presents the secret env in none of its three places
Differs(env, cred) == \A j \in 1..3 : cred[j] # env

\* C29: a request that does not present the valid secret learns nothing
\* about it: two servers whose secrets both differ from what the request
\* supplies answer it identically, on every route, /_show-secret and /__diag
\* included
C29_NoSecretDependence ==
  hy.pc = "done" =>
    \A e1 \in ConfiguredSecrets, e2 \in ConfiguredSecrets :
      (Differs(e1, hy.cred) /\ Differs(e2, hy.cred)) => hy.out[e1] = hy.out[e2]

\* ------------------------------------------------------------------------
\* The scans: termination and the number of upstream calls
\* ------------------------------------------------------------------------

\* the fetches started for the lead L
FetchesFor(L) == {j \in DOMAIN net.log : net.log[j].lead = L}

\* the fetches a scan may start for one lead
PerLeadMax(endpoint) == IF endpoint = "ids" THEN 4 ELSE 3

\* the calls of a scan are bounded: the leads taken are the first
\* min(clamp(sample), number of leads), a lead without id has no fetch, a
\* lead has at most 4 (ids preview) or 3 (deep) fetches, no url twice
ScanBounded ==
  (sc.endpoint \in {"ids", "deep"} /\ sc.pc \notin {"idle", "list"}) =>
    /\ Len(sc.toScan) =
         Min(ClampSample(sc.sample, SampleMax(sc.endpoint), SampleDefault(sc.endpoint)),
             sc.total)
    /\ \A j \in DOMAIN net.log :
         net.log[j].lead # NoId =>
           /\ net.log[j].lead # 0
           /\ \E m \in DOMAIN sc.toScan : LeadIdOf(sc.toScan[m]) = net.log[j].lead
    /\ \A m \in DOMAIN sc.toScan :
         Cardinality(FetchesFor(LeadIdOf(sc.toScan[m]))) <= PerLeadMax(sc.endpoint)
    /\ \A j \in DOMAIN net.log, m \in DOMAIN net.log :
         net.log[j] = net.log[m] => j = m
    /\ Len(net.log) <= 1 + PerLeadMax(sc.endpoint) * Len(sc.toScan)
    /\ sc.pc = "done" <=> scanRes.status \notin {0, 401}

\* C30: every scan request ends with exactly one response after a bounded
\* number of upstream calls
C30_ScanTerminatesBounded ==
  /\ []ScanBounded
  /\ (sc.pc # "idle") ~> (sc.pc = "done" /\ scanRes.status \notin {0, 401})

====
